---- MODULE Spec2Model ----
(***************************************************************************)
(* The offline retrieval index of the interview-practice application,      *)
(* RAGService of app/services/rag_service.py, and the interview session    *)
(* that reads it: InterviewHandler of app/logic/interview_handler.py with  *)
(* the session state of app/ui/state.py.  Texts, file names and tokens     *)
(* are sequences of one-character strings; a byte buffer is the sequence   *)
(* of its bytes, each an ASCII character or INVALID_BYTE.                  *)
(***************************************************************************)
EXTENDS Integers, Sequences, FiniteSets, TLC

VARIABLES chunks, idf, file, io, call, faults, session, saving

vars == <<chunks, idf, file, io, call, faults, session, saving>>

---------------------------------------------------------------------------
(* Characters, str.lower(), str.strip(), str.endswith()                    *)

LOWER == <<"a","b","c","d","e","f","g","h","i","j","k","l","m",
           "n","o","p","q","r","s","t","u","v","w","x","y","z">>

UPPER == <<"A","B","C","D","E","F","G","H","I","J","K","L","M",
           "N","O","P","Q","R","S","T","U","V","W","X","Y","Z">>

LowerSet == {LOWER[i] : i \in 1..26}

UpperSet == {UPPER[i] : i \in 1..26}

DigitSet == {"0","1","2","3","4","5","6","7","8","9"}

\* the characters the regular expression class \w matches (ASCII part)
WordChars == LowerSet \cup UpperSet \cup DigitSet \cup {"_"}

\* the characters str.strip() removes (ASCII part)
Whitespace == {" ", "\n", "\t", "\r"}

\* a byte that is not valid UTF-8; decode(errors='ignore') drops it
INVALID_BYTE == "\\xff"

LowerChar(c) ==
    IF c \in UpperSet THEN LOWER[CHOOSE i \in 1..26 : UPPER[i] = c] ELSE c

\* a Python list built by a comprehension: every element is computed once
List(f) == SubSeq(f, 1, Len(f))

Lower(s) == List([i \in 1..Len(s) |-> LowerChar(s[i])])

\* the first offset >= i, and the last offset <= i, of a character that
\* is not whitespace
SkipRight(s, i) ==
    LET stop == {j \in i..Len(s) : s[j] \notin Whitespace}
    IN  IF stop # {} THEN CHOOSE j \in stop : \A r \in stop : j <= r
        ELSE IF i <= Len(s) THEN Len(s) + 1 ELSE i

SkipLeft(s, i) ==
    LET stop == {j \in 1..i : s[j] \notin Whitespace}
    IN  IF stop # {} THEN CHOOSE j \in stop : \A r \in stop : r <= j
        ELSE IF i >= 1 THEN 0 ELSE i

Strip(s) == SubSeq(s, SkipRight(s, 1), SkipLeft(s, Len(s)))

EndsWith(s, suffix) ==
    /\ Len(s) >= Len(suffix)
    /\ SubSeq(s, Len(s) - Len(suffix) + 1, Len(s)) = suffix

\* Python's s[:n] for n >= 0
Prefix(s, n) == SubSeq(s, 1, IF n < Len(s) THEN n ELSE Len(s))

---------------------------------------------------------------------------
(* RAGService constants                                                    *)

CHUNK_SIZE == 500

CHUNK_OVERLAP == 50

STOP_WORDS == {
    <<"t","h","e">>, <<"a">>, <<"a","n">>, <<"i","s">>, <<"a","r","e">>, <<"w","a","s">>,
    <<"w","e","r","e">>, <<"b","e">>, <<"b","e","e","n">>, <<"b","e","i","n","g">>,
    <<"h","a","v","e">>, <<"h","a","s">>, <<"h","a","d">>, <<"d","o">>,
    <<"d","o","e","s">>, <<"d","i","d">>, <<"w","i","l","l">>, <<"w","o","u","l","d">>,
    <<"c","o","u","l","d">>, <<"s","h","o","u","l","d">>, <<"m","a","y">>,
    <<"m","i","g","h","t">>, <<"m","u","s","t">>, <<"s","h","a","l","l">>,
    <<"c","a","n">>, <<"n","e","e","d">>, <<"d","a","r","e">>, <<"o","u","g","h","t">>,
    <<"u","s","e","d">>, <<"t","o">>, <<"o","f">>, <<"i","n">>, <<"f","o","r">>,
    <<"o","n">>, <<"w","i","t","h">>, <<"a","t">>, <<"b","y">>, <<"f","r","o","m">>,
    <<"a","s">>, <<"i","n","t","o">>, <<"t","h","r","o","u","g","h">>,
    <<"d","u","r","i","n","g">>, <<"b","e","f","o","r","e">>, <<"a","f","t","e","r">>,
    <<"a","b","o","v","e">>, <<"b","e","l","o","w">>, <<"b","e","t","w","e","e","n">>,
    <<"u","n","d","e","r">>, <<"a","g","a","i","n">>, <<"f","u","r","t","h","e","r">>,
    <<"t","h","e","n">>, <<"o","n","c","e">>, <<"h","e","r","e">>,
    <<"t","h","e","r","e">>, <<"w","h","e","n">>, <<"w","h","e","r","e">>,
    <<"w","h","y">>, <<"h","o","w">>, <<"a","l","l">>, <<"e","a","c","h">>,
    <<"f","e","w">>, <<"m","o","r","e">>, <<"m","o","s","t">>, <<"o","t","h","e","r">>,
    <<"s","o","m","e">>, <<"s","u","c","h">>, <<"n","o">>, <<"n","o","r">>,
    <<"n","o","t">>, <<"o","n","l","y">>, <<"o","w","n">>, <<"s","a","m","e">>,
    <<"s","o">>, <<"t","h","a","n">>, <<"t","o","o">>, <<"v","e","r","y">>,
    <<"j","u","s","t">>, <<"a","n","d">>, <<"b","u","t">>, <<"i","f">>, <<"o","r">>,
    <<"b","e","c","a","u","s","e">>, <<"u","n","t","i","l">>, <<"w","h","i","l","e">>,
    <<"t","h","i","s">>, <<"t","h","a","t">>, <<"t","h","e","s","e">>,
    <<"t","h","o","s","e">>, <<"a","m">>, <<"i","t">>, <<"i","t","s">>, <<"w","e">>,
    <<"y","o","u">>, <<"y","o","u","r">>, <<"t","h","e","y">>, <<"t","h","e","i","r">>,
    <<"w","h","a","t">>, <<"w","h","i","c","h">>, <<"w","h","o">>, <<"w","h","o","m">>
    }

---------------------------------------------------------------------------
(* _tokenize: re.findall(r'\b[a-z]{2,}\b', text.lower()) minus stop words. *)
(* A match is a maximal run of \w characters that consists of a-z only and *)
(* is at least two characters long: \b holds only at the ends of a run.    *)

Indices(s) == [i \in 1..Len(s) |-> i]

\* the runs of \w characters, in order: the k-th start with the k-th end
Runs(s) ==
    LET starts == SelectSeq(Indices(s), LAMBDA i :
                      s[i] \in WordChars /\ (i = 1 \/ s[i - 1] \notin WordChars))
        ends == SelectSeq(Indices(s), LAMBDA j :
                      s[j] \in WordChars /\ (j = Len(s) \/ s[j + 1] \notin WordChars))
    IN  [k \in 1..Len(starts) |-> SubSeq(s, starts[k], ends[k])]

FindWords(s) ==
    SelectSeq(Runs(s), LAMBDA run :
        Len(run) >= 2 /\ \A m \in 1..Len(run) : run[m] \in LowerSet)

\* _tokenize with a seeded fault: the stop words are kept
_tokenize_keeping_stop_words(text) == FindWords(Lower(text))

_tokenize(text) ==
    LET words == FindWords(Lower(text))
    IN  SelectSeq(words, LAMBDA w : w \notin STOP_WORDS)

---------------------------------------------------------------------------
(* Numbers.  A float weight is kept in fixed point, in units of 1/ONE; a   *)
(* similarity score s in [0, 1] is kept exactly as the reduced fraction    *)
(* <<p, q>> = s * s (all weights are non-negative, so s orders as s * s).  *)

ONE == 10

\* round(ONE * ln n) for n = 1..8
LN_TABLE == <<0, 7, 11, 14, 16, 18, 19, 21>>

RECURSIVE GCD(_, _)
GCD(a, b) == IF b = 0 THEN a ELSE GCD(b, a % b)

\* math.log(n / d) for 1 <= d <= n: the quotient n / d is the same float
\* for every pair with the same ratio, so the pair is reduced first
Log(n, d) == LET g == GCD(n, d) IN LN_TABLE[n \div g] - LN_TABLE[d \div g]

ZERO_SCORE == <<0, 1>>

Fraction(p, q) == IF p = 0 THEN ZERO_SCORE
                  ELSE LET g == GCD(p, q) IN <<p \div g, q \div g>>

\* p1/q1 < p2/q2 for q1, q2 > 0, by continued fractions (no products)
RECURSIVE FracLess(_, _, _, _)
FracLess(p1, q1, p2, q2) ==
    LET a1 == p1 \div q1
        a2 == p2 \div q2
        r1 == p1 % q1
        r2 == p2 % q2
    IN  IF a1 # a2 THEN a1 < a2
        ELSE IF r2 = 0 THEN FALSE
        ELSE IF r1 = 0 THEN TRUE
        ELSE FracLess(q2, r2, q1, r1)

ScoreLess(s, t) == FracLess(s[1], s[2], t[1], t[2])

Range(s) == {s[i] : i \in 1..Len(s)}

RECURSIVE SumOver(_, _)
SumOver(f, S) ==
    IF S = {} THEN 0
    ELSE LET x == CHOOSE y \in S : TRUE
         IN  f[x] + SumOver(f, S \ {x})

---------------------------------------------------------------------------
(* _compute_idf, _get_tfidf_vector, _cosine_similarity                     *)

EMPTY_DICT == <<>>

\* _compute_idf with a seeded fault: a word is counted once per occurrence,
\* not once per chunk
_compute_idf_per_occurrence(cs, old) ==
    IF cs = <<>> THEN old
    ELSE LET doc_count == Len(cs)
             words == List([i \in 1..Len(cs) |-> List(_tokenize(cs[i].content))])
             vocabulary == UNION {Range(words[i]) : i \in 1..Len(cs)}
             word_count(w) ==
                 Cardinality({<<i, j>> \in (1..Len(cs)) \X (1..CHUNK_SIZE) :
                                j <= Len(words[i]) /\ words[i][j] = w})
         IN  [w \in vocabulary |-> Log(doc_count, word_count(w))]

\* _compute_idf with a seeded fault: the new scores are added onto the
\* scores the map already holds
_compute_idf_accumulating(cs, old) ==
    IF cs = <<>> THEN old
    ELSE LET doc_count == Len(cs)
             unique_words == List([i \in 1..Len(cs) |->
                                     Range(_tokenize(cs[i].content))])
             vocabulary == UNION {unique_words[i] : i \in 1..Len(cs)}
             word_doc_count(w) ==
                 Cardinality({i \in 1..Len(cs) : w \in unique_words[i]})
         IN  [w \in vocabulary |->
                Log(doc_count, word_doc_count(w))
                + (IF w \in DOMAIN old THEN old[w] ELSE 0)]

\* the value _compute_idf leaves in self._idf_scores, given the chunk list
\* and the map it finds there
_compute_idf(cs, old) ==
    IF cs = <<>> THEN old
    ELSE LET doc_count == Len(cs)
             unique_words == List([i \in 1..Len(cs) |->
                                     Range(_tokenize(cs[i].content))])
             vocabulary == UNION {unique_words[i] : i \in 1..Len(cs)}
             word_doc_count(w) ==
                 Cardinality({i \in 1..Len(cs) : w \in unique_words[i]})
         IN  [w \in vocabulary |-> Log(doc_count, word_doc_count(w))]

\* _get_tfidf_vector with a seeded fault: the IDF scores are not used
_get_tfidf_vector_unweighted(text, idfs) ==
    LET words == List(_tokenize(text))
        count(w) == Cardinality({i \in 1..Len(words) : words[i] = w})
        total == IF words # <<>> THEN Len(words) ELSE 1
    IN  [weights |-> [w \in Range(words) |-> count(w) * ONE],
         total |-> total]

\* a TF-IDF vector {word: (count / total) * idf}: weights[w] is the
\* numerator count * idf and total the common denominator
_get_tfidf_vector(text, idfs) ==
    LET words == List(_tokenize(text))
        count(w) == Cardinality({i \in 1..Len(words) : words[i] = w})
        total == IF words # <<>> THEN Len(words) ELSE 1
    IN  [weights |-> [w \in Range(words) |->
                        count(w) * (IF w \in DOMAIN idfs THEN idfs[w] ELSE ONE)],
         total |-> total]

\* _cosine_similarity with a seeded fault: the dot product is not divided
\* by the norms
_cosine_similarity_unnormalised(vec1, vec2) ==
    LET a == vec1.weights
        b == vec2.weights
        common_words == DOMAIN a \cap DOMAIN b
        dot == SumOver([w \in common_words |-> a[w] * b[w]], common_words)
    IN  IF common_words = {} THEN ZERO_SCORE
        ELSE LET totals == vec1.total * vec2.total
             IN  Fraction(dot * dot, totals * totals)

\* dot / (norm1 * norm2): the two totals cancel, so the squared score is
\* (sum a*b)^2 / (sum a*a * sum b*b) over the numerators
_cosine_similarity(vec1, vec2) ==
    LET a == vec1.weights
        b == vec2.weights
        common_words == DOMAIN a \cap DOMAIN b
        dot == SumOver([w \in common_words |-> a[w] * b[w]], common_words)
        norm1sq == SumOver([w \in DOMAIN a |-> a[w] * a[w]], DOMAIN a)
        norm2sq == SumOver([w \in DOMAIN b |-> b[w] * b[w]], DOMAIN b)
    IN  IF DOMAIN a = {} \/ DOMAIN b = {} THEN ZERO_SCORE
        ELSE IF common_words = {} THEN ZERO_SCORE
        ELSE IF norm1sq # 0 /\ norm2sq # 0
             THEN Fraction(dot * dot, norm1sq * norm2sq)
             ELSE ZERO_SCORE

---------------------------------------------------------------------------
(* Floating point.  The scores above are exact; Python computes them in    *)
(* binary floating point, rounding every operation to the nearest float,   *)
(* ties to even.  Here a float is <<m, e>> for m * 2^e, with m = 0 or m a  *)
(* significand of exactly FloatBits bits (53 in Python); the exponent is   *)
(* not bounded, so nothing overflows or underflows.                        *)

FloatBits == 6

FLOAT_ZERO == <<0, 0>>

RECURSIVE BitLength(_)
BitLength(n) == IF n = 0 THEN 0 ELSE 1 + BitLength(n \div 2)

\* the float nearest to n * 2^e, for an integer n >= 0
Round(n, e) ==
    IF n = 0 THEN FLOAT_ZERO
    ELSE LET len == BitLength(n)
         IN  IF len <= FloatBits
             THEN <<n * 2^(FloatBits - len), e - (FloatBits - len)>>
             ELSE LET k == len - FloatBits
                      q == n \div 2^k
                      r == n % 2^k
                      half == 2^(k - 1)
                      up == r > half \/ (r = half /\ q % 2 = 1)
                  IN  IF ~up THEN <<q, e + k>>
                      ELSE IF q + 1 = 2^FloatBits
                           THEN <<2^(FloatBits - 1), e + k + 1>>
                           ELSE <<q + 1, e + k>>

\* float(n) for an integer n >= 0
Float(n) == Round(n, 0)

FloatMul(x, y) == Round(x[1] * y[1], x[2] + y[2])

FloatAdd(x, y) ==
    IF x[1] = 0 THEN y
    ELSE IF y[1] = 0 THEN x
    ELSE LET e == IF x[2] < y[2] THEN x[2] ELSE y[2]
         IN  Round(x[1] * 2^(x[2] - e) + y[1] * 2^(y[2] - e), e)

\* x / y for y # 0: the quotient to 2 * FloatBits + 2 places, with one
\* more bit that is set when the division left a remainder
FloatDiv(x, y) ==
    IF x[1] = 0 THEN FLOAT_ZERO
    ELSE LET k == 2 * FloatBits + 2
             n == x[1] * 2^k
         IN  Round(2 * (n \div y[1]) + (IF n % y[1] = 0 THEN 0 ELSE 1),
                   x[2] - y[2] - k - 1)

\* the integer square root
RECURSIVE ISqrt(_)
ISqrt(n) ==
    IF n < 2 THEN n
    ELSE LET s == 2 * ISqrt(n \div 4)
         IN  IF (s + 1) * (s + 1) <= n THEN s + 1 ELSE s

\* math.sqrt(x)
FloatSqrt(x) ==
    IF x[1] = 0 THEN FLOAT_ZERO
    ELSE LET odd == x[2] % 2 = 1
             m == IF odd THEN 2 * x[1] ELSE x[1]
             e == IF odd THEN x[2] - 1 ELSE x[2]
             k == FloatBits + 1
             n == m * 2^(2 * k)
             s == ISqrt(n)
         IN  Round(2 * s + (IF s * s = n THEN 0 ELSE 1), (e \div 2) - k - 1)

\* x < y
FloatLess(x, y) ==
    LET e == IF x[2] < y[2] THEN x[2] ELSE y[2]
    IN  x[1] * 2^(x[2] - e) < y[1] * 2^(y[2] - e)

\* sum(...) over the floats of a sequence, from the left, starting at 0
RECURSIVE FloatSum(_)
FloatSum(xs) ==
    IF xs = <<>> THEN FLOAT_ZERO
    ELSE FloatAdd(FloatSum(SubSeq(xs, 1, Len(xs) - 1)), xs[Len(xs)])

\* a dict {word: weight} is the sequence of its items in insertion order
DictKeys(vec) == {vec[i][1] : i \in 1..Len(vec)}

DictGet(vec, w) == vec[CHOOSE i \in 1..Len(vec) : vec[i][1] = w][2]

\* _cosine_similarity in floating point; order is the order in which the
\* set common_words yields its elements, which CPython derives from the
\* words' randomised hashes and the sets' histories
_cosine_similarity_float(vec1, vec2, order) ==
    IF vec1 = <<>> \/ vec2 = <<>> THEN FLOAT_ZERO
    ELSE IF DictKeys(vec1) \cap DictKeys(vec2) = {} THEN FLOAT_ZERO
    ELSE LET dot == FloatSum([i \in 1..Len(order) |->
                        FloatMul(DictGet(vec1, order[i]), DictGet(vec2, order[i]))])
             norm1 == FloatSqrt(FloatSum([i \in 1..Len(vec1) |->
                                            FloatMul(vec1[i][2], vec1[i][2])]))
             norm2 == FloatSqrt(FloatSum([i \in 1..Len(vec2) |->
                                            FloatMul(vec2[i][2], vec2[i][2])]))
         IN  IF norm1[1] # 0 /\ norm2[1] # 0
             THEN FloatDiv(dot, FloatMul(norm1, norm2))
             ELSE FLOAT_ZERO

---------------------------------------------------------------------------
(* DocumentChunk and _chunk_text.  Offsets are Python's: 0-based, and a    *)
(* slice text[start:end] holds the characters start .. end - 1.            *)

DIGITS == <<"0","1","2","3","4","5","6","7","8","9">>

\* str(n) for n >= 0
RECURSIVE Str(_)
Str(n) == IF n < 10 THEN <<DIGITS[n + 1]>>
          ELSE Str(n \div 10) \o <<DIGITS[(n % 10) + 1]>>

Slice(text, start, end) == SubSeq(text, start + 1, end)

\* text.rfind(sep, start, end): the highest offset of sep inside the slice,
\* or -1
RFind(text, sep, start, end) ==
    LET at == {p \in start..(end - Len(sep)) :
                 \A j \in 1..Len(sep) : text[p + j] = sep[j]}
    IN  IF at = {} THEN -1 ELSE CHOOSE p \in at : \A r \in at : r <= p

\* hashlib.md5(s.encode()).hexdigest()[:12]: a digest is kept as the
\* string it was taken of (equal strings, equal digests)
Md5Hex12(s) == <<"md5", s>>

DocumentChunk(content, source, chunk_id, keywords) ==
    [content |-> content, source |-> source,
     chunk_id |-> chunk_id, keywords |-> keywords]

NewChunk(chunk_text, source, idx) ==
    DocumentChunk(chunk_text, source,
                  Md5Hex12(source \o <<"_">> \o Str(idx)),
                  Prefix(_tokenize(chunk_text), 20))

\* SEPARATORS with a seeded fault: the space is tried first
SEPARATORS_space_first == << <<" ">>, <<"\n">>, <<".", " ">> >>

SEPARATORS == << <<".", " ">>, <<"\n">>, <<" ">> >>

\* the end of the window that starts at start: cut back to just after the
\* first separator, in order, whose last occurrence is past the midpoint
RECURSIVE WindowCut(_, _, _, _, _)
WindowCut(text, start, end, size, s) ==
    IF s > Len(SEPARATORS) THEN end
    ELSE LET pos == RFind(text, SEPARATORS[s], start, end)
         IN  IF pos > start + size \div 2 THEN pos + 1
             ELSE WindowCut(text, start, end, size, s + 1)

WindowEnd(text, start, size) ==
    LET end == IF start + size < Len(text) THEN start + size ELSE Len(text)
    IN  IF end < Len(text) THEN WindowCut(text, start, end, size, 1) ELSE end

\* NextStart with a seeded fault: the overlap is added, not subtracted
NextStart_adding_overlap(start, end, overlap) == end + overlap

\* NextStart with a seeded fault: the start always moves to end - overlap
NextStart_always_overlapping(start, end, overlap) == end - overlap

\* where the next window starts
NextStart(start, end, overlap) ==
    IF end - overlap > start THEN end - overlap ELSE end

\* the windows <<start, end>> of the loop's iterations, in order
RECURSIVE Windows(_, _, _, _)
Windows(text, start, size, overlap) ==
    IF ~(start < Len(text)) THEN <<>>
    ELSE LET end == WindowEnd(text, start, size)
         IN  <<<<start, end>>>>
             \o Windows(text, NextStart(start, end, overlap), size, overlap)

\* ChunkLoop with a seeded fault: idx counts the windows, the skipped ones
\* too
ChunkLoop_counting_windows(text, source, start, idx, size, overlap) ==
    LET w == Windows(text, start, size, overlap)
    IN  SelectSeq([i \in 1..Len(w) |->
                     NewChunk(Strip(Slice(text, w[i][1], w[i][2])), source,
                              idx + i - 1)],
                  LAMBDA c : c.content # <<>>)

RECURSIVE ChunkLoop(_, _, _, _, _, _)
ChunkLoop(text, source, start, idx, size, overlap) ==
    IF ~(start < Len(text)) THEN <<>>
    ELSE LET end == WindowEnd(text, start, size)
             chunk_text == Strip(Slice(text, start, end))
             next == NextStart(start, end, overlap)
         IN  IF chunk_text # <<>>
             THEN <<NewChunk(chunk_text, source, idx)>>
                  \o ChunkLoop(text, source, next, idx + 1, size, overlap)
             ELSE ChunkLoop(text, source, next, idx, size, overlap)

\* ChunkText with a seeded fault: the text is not stripped first
ChunkText_unstripped(raw, source, size, overlap) ==
    IF Len(raw) < size THEN <<NewChunk(raw, source, 0)>>
    ELSE ChunkLoop(raw, source, 0, 0, size, overlap)

ChunkText(raw, source, size, overlap) ==
    LET text == Strip(raw)
    IN  IF Len(text) < size THEN <<NewChunk(text, source, 0)>>
        ELSE ChunkLoop(text, source, 0, 0, size, overlap)

_chunk_text(text, source) == ChunkText(text, source, CHUNK_SIZE, CHUNK_OVERLAP)

---------------------------------------------------------------------------
(* _parse_document.  An upload is [filename, bytes, lib]: lib is what the  *)
(* third-party reader does with these bytes, [raises |-> TRUE] or the page *)
(* texts (PyPDF2; NONE for a page without text) or paragraph texts         *)
(* (python-docx) it finds.                                                 *)

NONE == "None"

RECURSIVE Join(_, _)
Join(sep, parts) ==
    IF parts = <<>> THEN <<>>
    ELSE IF Len(parts) = 1 THEN parts[1]
    ELSE parts[1] \o sep \o Join(sep, Tail(parts))

\* bytes.decode('utf-8', errors='ignore')
Decode(bytes) == SelectSeq(bytes, LAMBDA b : b # INVALID_BYTE)

DOT_PDF == <<".", "p", "d", "f">>

DOT_DOCX == <<".", "d", "o", "c", "x">>

DOT_TXT == <<".", "t", "x", "t">>

PARAGRAPH_BREAK == <<"\n", "\n">>

\* _parse_document with a seeded fault: any other file type is decoded
\* as text
_parse_document_decoding_any(file_bytes, filename, lib) ==
    LET filename_lower == Lower(filename)
    IN  IF EndsWith(filename_lower, DOT_PDF) \/ EndsWith(filename_lower, DOT_DOCX)
        THEN IF lib.raises THEN <<>> ELSE Join(PARAGRAPH_BREAK, lib.parts)
        ELSE Decode(file_bytes)

_parse_document(file_bytes, filename, lib) ==
    LET filename_lower == Lower(filename)
    IN  IF EndsWith(filename_lower, DOT_PDF)
        THEN IF lib.raises THEN <<>>
             ELSE Join(PARAGRAPH_BREAK,
                       [i \in 1..Len(lib.parts) |->
                          IF lib.parts[i] = NONE THEN <<>> ELSE lib.parts[i]])
        ELSE IF EndsWith(filename_lower, DOT_DOCX)
        THEN IF lib.raises THEN <<>>
             ELSE Join(PARAGRAPH_BREAK,
                       SelectSeq(lib.parts, LAMBDA p : Strip(p) # <<>>))
        ELSE IF EndsWith(filename_lower, DOT_TXT)
        THEN Decode(file_bytes)
        ELSE <<>>

---------------------------------------------------------------------------
(* Persistence.  The storage file is absent, holds a JSON array (data: the *)
(* objects, each a sequence of <<key, value>> members), or holds text that *)
(* json.load rejects (a write that failed after open() truncated it).      *)

ABSENT == [state |-> "absent", data |-> <<>>]

CORRUPT == [state |-> "corrupt", data |-> <<>>]

JsonFile(data) == [state |-> "json", data |-> data]

\* asdict with a seeded fault: the keywords are written as an empty list
asdict_emptying_keywords(c) ==
    << <<"content", c.content>>, <<"source", c.source>>,
       <<"chunk_id", c.chunk_id>>, <<"keywords", <<>> >> >>

\* dataclasses.asdict(c), as json.dump writes it
asdict(c) == << <<"content", c.content>>, <<"source", c.source>>,
                <<"chunk_id", c.chunk_id>>, <<"keywords", c.keywords>> >>

Keys(obj) == {obj[i][1] : i \in 1..Len(obj)}

Member(obj, key) == obj[CHOOSE i \in 1..Len(obj) : obj[i][1] = key][2]

\* DocumentChunk(**c) raises TypeError on a missing or an unknown field;
\* keywords defaults to None
ChunkFields == {"content", "source", "chunk_id", "keywords"}

Constructible(obj) ==
    /\ Keys(obj) \subseteq ChunkFields
    /\ {"content", "source", "chunk_id"} \subseteq Keys(obj)

FromDict(obj) ==
    DocumentChunk(Member(obj, "content"), Member(obj, "source"),
                  Member(obj, "chunk_id"),
                  IF "keywords" \in Keys(obj) THEN Member(obj, "keywords")
                  ELSE NONE)

\* a JSON null where a text is expected: no text is equal to it, since a
\* text is a sequence of single characters
JSON_NULL == <<"null">>

\* a file that is JSON but not as _save_storage writes it: a chunk record
\* followed by a record without chunk_id; a record whose content is null
MALFORMED ==
    JsonFile(<< << <<"content", <<"g","o">> >>, <<"source", <<"f">> >>,
                   <<"chunk_id", <<"0">> >>, <<"keywords", <<>> >> >>,
                << <<"content", <<"g","o">> >>, <<"source", <<"f">> >> >> >>)

NULL_CONTENT ==
    JsonFile(<< << <<"content", JSON_NULL>>, <<"source", <<"f">> >>,
                   <<"chunk_id", <<"0">> >> >> >>)

\* chunk.content.lower() in _tokenize raises AttributeError unless the
\* content is a str
Tokenizable(cs) == \A i \in 1..Len(cs) : cs[i].content # JSON_NULL

\* self._chunks after _load_storage, which starts from the empty list;
\* rd = "fails" when open() or read raises
_load_storage(f, rd) ==
    IF f.state = "absent" THEN <<>>
    ELSE IF rd = "fails" \/ f.state = "corrupt" THEN <<>>
    ELSE IF \A i \in 1..Len(f.data) : Constructible(f.data[i])
         THEN [i \in 1..Len(f.data) |-> FromDict(f.data[i])]
         ELSE <<>>

\* the file after _save_storage; wr = "open_fails" when open() raises,
\* "write_fails" when json.dump raises after open() truncated the file
_save_storage(cs, f, wr) ==
    IF wr = "open_fails" THEN f
    ELSE IF wr = "write_fails" THEN CORRUPT
    ELSE JsonFile([i \in 1..Len(cs) |-> asdict(cs[i])])
---------------------------------------------------------------------------
(* The interview session: st.session_state of app/ui/state.py and what the *)
(* handlers of app/logic/interview_handler.py keep outside it.  session is *)
(* [state, audio, db, rag]: state the session-state keys, audio the audio  *)
(* files saved, db the number of rows of the interview table.  None is     *)
(* kept as "None" for a string, 0 for the row id and NO_REVIEW for the     *)
(* review.                                                                 *)

NO_REVIEW == <<"None">>

\* DEFAULTS of app/ui/state.py
DEFAULTS ==
    [messages |-> <<>>, interview_active |-> FALSE, interview_mode |-> NONE,
     difficulty_level |-> 5, mode_selected |-> TRUE, review_data |-> NO_REVIEW,
     last_ai_message |-> <<>>, recorder_key |-> 0, session_id |-> 0,
     turn_number |-> 0, turn_analytics |-> <<>>]

\* the session after init_state(), with no audio saved, no row stored and
\* no index looked at; rag is the chunk list of the RAGService() a handler
\* constructed last
NO_SESSION == [state |-> DEFAULTS, audio |-> {}, db |-> 0, rag |-> <<>>]

\* no add_document is inside _save_storage.  While one is, saving holds
\* its upload and the chunk list the file held before it was opened
NOT_SAVING == [open |-> FALSE, upload |-> <<>>, before |-> <<>>]

TECHNICAL == "technical"

HR == "hr"

\* DIFFICULTY_LABELS of app/core/config.py
DIFFICULTY_LABELS == <<
    <<"S","t","a","r","t","u","p"," ","(","E","n","t","r","y","-","L","e",
      "v","e","l",")">>,
    <<"S","m","a","l","l"," ","C","o","m","p","a","n","y">>,
    <<"M","i","d","-","S","i","z","e"," ","C","o","m","p","a","n","y">>,
    <<"G","r","o","w","i","n","g"," ","T","e","c","h"," ","C","o","m","p",
      "a","n","y">>,
    <<"E","s","t","a","b","l","i","s","h","e","d"," ","T","e","c","h">>,
    <<"L","a","r","g","e"," ","E","n","t","e","r","p","r","i","s","e">>,
    <<"T","o","p"," ","T","e","c","h"," ","C","o","m","p","a","n","y">>,
    <<"B","i","g"," ","T","e","c","h">>,
    <<"F","A","A","N","G"," ","C","o","m","p","e","t","i","t","o","r">>,
    <<"F","A","A","N","G"," ","(","E","l","i","t","e",")">> >>

\* DIFFICULTY_LABELS.get(difficulty, "Unknown")
DifficultyLabel(difficulty) ==
    IF difficulty \in 1..Len(DIFFICULTY_LABELS) THEN DIFFICULTY_LABELS[difficulty]
    ELSE <<"U","n","k","n","o","w","n">>

CompanyType(difficulty) ==
    IF difficulty <= 3 THEN
        <<"a"," ","g","r","o","w","i","n","g"," ","s","t","a","r","t","u",
          "p">>
    ELSE IF difficulty <= 6 THEN
        <<"a","n"," ","e","s","t","a","b","l","i","s","h","e","d"," ","t",
          "e","c","h"," ","c","o","m","p","a","n","y">>
    ELSE IF difficulty <= 8 THEN
        <<"a"," ","t","o","p"," ","t","e","c","h"," ","c","o","m","p","a",
          "n","y">>
    ELSE
        <<"a"," ","F","A","A","N","G"," ","c","o","m","p","a","n","y">>

RAG_TOPIC ==
    <<"j","o","b"," ","r","e","q","u","i","r","e","m","e","n","t","s"," ",
      "s","k","i","l","l","s"," ","q","u","a","l","i","f","i","c","a","t",
      "i","o","n","s">>

\* the parts of the greetings of start_new_interview

HR_RAG_HEAD ==
    <<"H","e","l","l","o","!"," ","I","'","m"," ","y","o","u","r"," ","H",
      "R"," ","I","n","t","e","r","v","i","e","w","e","r","."," ","B","a",
      "s","e","d"," ","o","n"," ","t","h","e"," ","j","o","b"," ","r","e",
      "q","u","i","r","e","m","e","n","t","s"," ","I","'","v","e"," ","r",
      "e","v","i","e","w","e","d",","," ","t","h","i","s"," ","i","s"," ",
      "a"," ">>

HR_RAG_TAIL ==
    <<" ","l","e","v","e","l"," ","i","n","t","e","r","v","i","e","w",".",
      " ","I","'","l","l"," ","b","e"," ","a","s","s","e","s","s","i","n",
      "g"," ","y","o","u","r"," ","c","o","m","m","u","n","i","c","a","t",
      "i","o","n"," ","s","k","i","l","l","s"," ","a","n","d"," ","h","o",
      "w"," ","w","e","l","l"," ","y","o","u"," ","f","i","t"," ","t","h",
      "i","s"," ","s","p","e","c","i","f","i","c"," ","r","o","l","e",".",
      " ","L","e","t","'","s"," ","s","t","a","r","t","\\u2014","t","e","l","l",
      " ","m","e"," ","a","b","o","u","t"," ","y","o","u","r","s","e","l",
      "f"," ","a","n","d"," ","w","h","y"," ","y","o","u","'","r","e"," ",
      "i","n","t","e","r","e","s","t","e","d"," ","i","n"," ","t","h","i",
      "s"," ","p","o","s","i","t","i","o","n",".">>

TECHNICAL_RAG_HEAD ==
    <<"H","e","l","l","o","!"," ","I","'","m"," ","y","o","u","r"," ","T",
      "e","c","h","n","i","c","a","l"," ","I","n","t","e","r","v","i","e",
      "w","e","r","."," ","I","'","v","e"," ","r","e","v","i","e","w","e",
      "d"," ","t","h","e"," ","j","o","b"," ","d","e","s","c","r","i","p",
      "t","i","o","n"," ","f","o","r"," ","t","h","i","s"," ","r","o","l",
      "e","."," ","T","h","i","s"," ","i","s"," ","a"," ">>

TECHNICAL_RAG_TAIL ==
    <<" ","l","e","v","e","l"," ","i","n","t","e","r","v","i","e","w",".",
      " ","I","'","l","l"," ","b","e"," ","e","v","a","l","u","a","t","i",
      "n","g"," ","y","o","u","r"," ","t","e","c","h","n","i","c","a","l",
      " ","s","k","i","l","l","s"," ","b","a","s","e","d"," ","o","n"," ",
      "t","h","e"," ","s","p","e","c","i","f","i","c"," ","r","e","q","u",
      "i","r","e","m","e","n","t","s","."," ","T","o"," ","b","e","g","i",
      "n",","," ","t","e","l","l"," ","m","e"," ","a","b","o","u","t"," ",
      "a"," ","p","r","o","j","e","c","t"," ","t","h","a","t"," ","d","e",
      "m","o","n","s","t","r","a","t","e","s"," ","y","o","u","r"," ","e",
      "x","p","e","r","t","i","s","e"," ","r","e","l","e","v","a","n","t",
      " ","t","o"," ","t","h","i","s"," ","r","o","l","e",".">>

HR_HEAD ==
    <<"H","e","l","l","o","!"," ","I","'","m"," ","y","o","u","r"," ","H",
      "R"," ","I","n","t","e","r","v","i","e","w","e","r"," ","f","r","o",
      "m"," ">>

HR_TAIL ==
    <<" ","l","e","v","e","l"," ","i","n","t","e","r","v","i","e","w",".",
      " ","I","'","l","l"," ","b","e"," ","a","s","s","e","s","s","i","n",
      "g"," ","y","o","u","r"," ","c","o","m","m","u","n","i","c","a","t",
      "i","o","n"," ","s","k","i","l","l","s"," ","a","n","d"," ","c","u",
      "l","t","u","r","a","l"," ","f","i","t","."," ","L","e","t","'","s",
      " ","s","t","a","r","t","\\u2014","t","e","l","l"," ","m","e"," ","a","b",
      "o","u","t"," ","y","o","u","r","s","e","l","f"," ","a","n","d"," ",
      "y","o","u","r"," ","c","a","r","e","e","r"," ","j","o","u","r","n",
      "e","y",".">>

TECHNICAL_HEAD ==
    <<"H","e","l","l","o","!"," ","I","'","m"," ","y","o","u","r"," ","T",
      "e","c","h","n","i","c","a","l"," ","I","n","t","e","r","v","i","e",
      "w","e","r"," ","f","r","o","m"," ">>

TECHNICAL_TAIL ==
    <<" ","l","e","v","e","l"," ","i","n","t","e","r","v","i","e","w",".",
      " ","I","'","l","l"," ","b","e"," ","e","v","a","l","u","a","t","i",
      "n","g"," ","y","o","u","r"," ","p","r","o","b","l","e","m","-","s",
      "o","l","v","i","n","g"," ","a","n","d"," ","t","e","c","h","n","i",
      "c","a","l"," ","s","k","i","l","l","s","."," ","T","o"," ","b","e",
      "g","i","n",","," ","t","e","l","l"," ","m","e"," ","a","b","o","u",
      "t"," ","y","o","u","r"," ","m","o","s","t"," ","c","h","a","l","l",
      "e","n","g","i","n","g"," ","t","e","c","h","n","i","c","a","l"," ",
      "p","r","o","j","e","c","t",".">>

THIS_IS_A ==
    <<"."," ","T","h","i","s"," ","i","s"," ","a"," ">>

\* initial_msg of start_new_interview
InitialMessage(mode, difficulty, personalised) ==
    IF personalised
    THEN IF mode = HR
         THEN HR_RAG_HEAD \o DifficultyLabel(difficulty) \o HR_RAG_TAIL
         ELSE TECHNICAL_RAG_HEAD \o DifficultyLabel(difficulty)
              \o TECHNICAL_RAG_TAIL
    ELSE IF mode = HR
         THEN HR_HEAD \o CompanyType(difficulty) \o THIS_IS_A
              \o DifficultyLabel(difficulty) \o HR_TAIL
         ELSE TECHNICAL_HEAD \o CompanyType(difficulty) \o THIS_IS_A
              \o DifficultyLabel(difficulty) \o TECHNICAL_TAIL


---------------------------------------------------------------------------
(* query_context and get_context_for_prompt                                *)

\* SortByScore with a seeded fault: sorted ascending and then reversed,
\* which turns equal scores around
RECURSIVE SortByScore_reversing_ties(_)
SortByScore_reversing_ties(scored) ==
    IF scored = <<>> THEN <<>>
    ELSE LET n == Len(scored)
             x == scored[n]
             rest == SortByScore_reversing_ties(SubSeq(scored, 1, n - 1))
             ahead == {i \in 1..Len(rest) : ScoreLess(x.score, rest[i].score)}
             at == Cardinality(ahead)
         IN  SubSeq(rest, 1, at) \o <<x>> \o SubSeq(rest, at + 1, Len(rest))

\* list.sort(key=score, reverse=True) is stable: an element goes after
\* every element already placed whose score is not smaller
RECURSIVE SortByScore(_)
SortByScore(scored) ==
    IF scored = <<>> THEN <<>>
    ELSE LET n == Len(scored)
             x == scored[n]
             rest == SortByScore(SubSeq(scored, 1, n - 1))
             ahead == {i \in 1..Len(rest) : ~ScoreLess(rest[i].score, x.score)}
             at == Cardinality(ahead)
         IN  SubSeq(rest, 1, at) \o <<x>> \o SubSeq(rest, at + 1, Len(rest))

query_context(cs, idfs, query, k) ==
    IF cs = <<>> THEN <<>>
    ELSE LET query_vec == _get_tfidf_vector(query, idfs)
             all == List([i \in 1..Len(cs) |->
                       [content |-> cs[i].content, source |-> cs[i].source,
                        score |-> _cosine_similarity(
                                     query_vec,
                                     _get_tfidf_vector(cs[i].content, idfs))]])
             scored == SelectSeq(all, LAMBDA r : r.score[1] > 0)
         IN  IF DOMAIN query_vec.weights = {} THEN <<>>
             ELSE Prefix(SortByScore(scored), k)

HEADER == <<"#","#"," ","C","o","m","p","a","n","y"," ",
            "R","e","s","e","a","r","c","h"," ",
            "C","o","n","t","e","x","t",":">>

ELLIPSIS == <<".", ".", ".">>

PROMPT_K == 3

PROMPT_CUT == 250

\* PromptPart with a seeded fault: every content is cut and marked
PromptPart_always_cutting(i, r) ==
    Str(i) \o <<".", " ">> \o Prefix(r.content, PROMPT_CUT) \o ELLIPSIS

PromptPart(i, r) ==
    Str(i) \o <<".", " ">>
    \o (IF Len(r.content) > PROMPT_CUT
        THEN Prefix(r.content, PROMPT_CUT) \o ELLIPSIS
        ELSE r.content)

\* get_context_for_prompt with a seeded fault: no early return
get_context_for_prompt_unguarded(cs, idfs, topic) ==
    LET results == query_context(cs, idfs, topic, PROMPT_K)
    IN  Join(<<"\n">>,
             <<HEADER>> \o [i \in 1..Len(results) |-> PromptPart(i, results[i])])

get_context_for_prompt(cs, idfs, topic) ==
    IF cs = <<>> THEN <<>>
    ELSE LET results == query_context(cs, idfs, topic, PROMPT_K)
         IN  IF results = <<>> THEN <<>>
             ELSE Join(<<"\n">>,
                       <<HEADER>> \o [i \in 1..Len(results) |->
                                        PromptPart(i, results[i])])

get_document_count(cs) == Len(cs)

has_documents(cs) == Len(cs) > 0

---------------------------------------------------------------------------
(* Inputs                                                                  *)

MaxChunks == 3

MaxK == 2

MaxFaults == 1

Rep(c, n) == [i \in 1..n |-> c]

Raises == [raises |-> TRUE, parts |-> <<>>]

Reads(parts) == [raises |-> FALSE, parts |-> parts]

Upload(filename, bytes, lib) ==
    [filename |-> filename, bytes |-> bytes, lib |-> lib]

\* 500 characters with no separator past the midpoint of the first window
LONG_TEXT ==
    <<"d","b"," ","a","i"," ">> \o Rep("-", 444)
    \o <<"g","o"," ","d","b"," ">> \o Rep("-", 42) \o <<"m","l">>

PDF_BYTES == <<"%","P","D","F">>

ZIP_BYTES == <<"P","K">>

\* a text file with an invalid byte; a document with a blank paragraph and
\* the words of the text file in another order; a scanned PDF (no page has
\* text); a long text file; then the uploads that yield no text: an empty
\* buffer, an unsupported type, a corrupt PDF
Uploads == {
    Upload(<<"B",".","T","X","T">>,
           <<" ","A","I",INVALID_BYTE," ","i","s"," ","m","l",".","\n">>, Raises),
    Upload(<<"d",".","d","o","c","x">>, ZIP_BYTES,
           Reads(<< <<" ">>, <<"m","l"," ","A","I">> >>)),
    Upload(<<"s",".","p","d","f">>, PDF_BYTES, Reads(<<NONE, NONE>>)),
    Upload(<<"l",".","t","x","t">>, LONG_TEXT, Raises),
    Upload(<<"e",".","t","x","t">>, <<>>, Raises),
    Upload(<<"x",".","p","n","g">>, <<"g","o">>, Raises),
    Upload(<<"c",".","p","d","f">>, <<"g","o">>, Raises) }

Queries == {
    <<"m","l">>,
    <<"z","z"," ","g","o">>,
    <<"M","L"," ","a","i","?">>,
    <<"i","s"," ","t","o">>,
    <<>> }

---------------------------------------------------------------------------
(* The index: one RAGService object and the storage file.  io is what the  *)
(* object's last change of the file came to; call is the last call made,   *)
(* with its inputs, what the environment did (env) and what it returned;   *)
(* faults counts the storage accesses the environment has made fail.       *)

Call(op, arg, k, env, ret, raised) ==
    [op |-> op, arg |-> arg, k |-> k, env |-> env, ret |-> ret,
     raised |-> raised]

Fault(outcome) == IF outcome = "ok" THEN 0 ELSE 1

\* the storage file the first RAGService() finds
InitialFiles == {ABSENT, CORRUPT, MALFORMED, NULL_CONTENT}

\* every file but the last loads as the empty list; on the last one
\* _compute_idf raises and no object comes to exist
Init ==
    /\ file \in InitialFiles
    /\ chunks = <<>>
    /\ idf = EMPTY_DICT
    /\ io = "none"
    /\ call = Call("__init__", <<>>, 0, "ok", NONE,
                   ~Tokenizable(_load_storage(file, "ok")))
    /\ faults = 0
    /\ session = NO_SESSION
    /\ saving = NOT_SAVING

\* the last RAGService() returned an object
Constructed == ~(call.op = "__init__" /\ call.raised)

\* RAGService(): _load_storage, then _compute_idf on the empty map; what
\* _compute_idf raises leaves __init__, and the caller has no index
Construct(rd) ==
    LET loaded == _load_storage(file, rd)
    IN  /\ chunks' = IF Tokenizable(loaded) THEN loaded ELSE <<>>
        /\ idf' = IF Tokenizable(loaded) THEN _compute_idf(loaded, EMPTY_DICT)
                  ELSE EMPTY_DICT
        /\ io' = "none"
        /\ call' = Call("__init__", <<>>, 0, rd, NONE, ~Tokenizable(loaded))
        /\ UNCHANGED <<file, session, saving>>

Restart ==
    \E rd \in {"ok", "fails"} :
        /\ faults + Fault(rd) <= MaxFaults
        /\ rd = "fails" => file.state # "absent"
        /\ faults' = faults + Fault(rd)
        /\ Construct(rd)

\* add_document with a seeded fault: it returns the size of the index
add_document_returning_total(u, wrs) ==
    LET text == _parse_document(u.bytes, u.filename, u.lib)
        new == _chunk_text(text, u.filename)
        all == chunks \o new
    IN  IF text = <<>>
        THEN /\ Constructed
             /\ call' = Call("add_document", u, 0, "none", 0, FALSE)
             /\ UNCHANGED <<chunks, idf, file, io, faults, session, saving>>
        ELSE /\ Constructed
             /\ Len(all) <= MaxChunks
             /\ chunks' = all
             /\ idf' = _compute_idf(all, idf)
             /\ UNCHANGED <<session, saving>>
             /\ \E wr \in wrs :
                   /\ faults + Fault(wr) <= MaxFaults
                   /\ faults' = faults + Fault(wr)
                   /\ file' = _save_storage(all, file, wr)
                   /\ io' = IF wr = "ok" THEN "saved" ELSE "save_failed"
                   /\ call' = Call("add_document", u, 0, wr, Len(all), FALSE)

\* add_document with a seeded fault: what a failed save raises is not caught
add_document_unguarded_save(u, wrs) ==
    LET text == _parse_document(u.bytes, u.filename, u.lib)
        new == _chunk_text(text, u.filename)
        all == chunks \o new
    IN  IF text = <<>>
        THEN /\ Constructed
             /\ call' = Call("add_document", u, 0, "none", 0, FALSE)
             /\ UNCHANGED <<chunks, idf, file, io, faults, session, saving>>
        ELSE /\ Constructed
             /\ Len(all) <= MaxChunks
             /\ chunks' = all
             /\ idf' = _compute_idf(all, idf)
             /\ UNCHANGED <<session, saving>>
             /\ \E wr \in wrs :
                   /\ faults + Fault(wr) <= MaxFaults
                   /\ faults' = faults + Fault(wr)
                   /\ file' = _save_storage(all, file, wr)
                   /\ io' = IF wr = "ok" THEN "saved" ELSE "save_failed"
                   /\ call' = Call("add_document", u, 0, wr, Len(new),
                                   wr # "ok")

add_document(u, wrs) ==
    LET text == _parse_document(u.bytes, u.filename, u.lib)
        new == _chunk_text(text, u.filename)
        all == chunks \o new
    IN  IF text = <<>>
        THEN /\ Constructed
             /\ call' = Call("add_document", u, 0, "none", 0, FALSE)
             /\ UNCHANGED <<chunks, idf, file, io, faults, session, saving>>
        ELSE /\ Constructed
             /\ Len(all) <= MaxChunks
             /\ chunks' = all
             /\ idf' = _compute_idf(all, idf)
             /\ UNCHANGED <<session, saving>>
             /\ \E wr \in wrs :
                   /\ faults + Fault(wr) <= MaxFaults
                   /\ faults' = faults + Fault(wr)
                   /\ file' = _save_storage(all, file, wr)
                   /\ io' = IF wr = "ok" THEN "saved" ELSE "save_failed"
                   /\ call' = Call("add_document", u, 0, wr, Len(new), FALSE)

AddDocument ==
    \E u \in Uploads : add_document(u, {"ok", "open_fails", "write_fails"})

QueryInputs == Queries \cup {chunks[i].content : i \in 1..Len(chunks)}

\* QueryContext with a seeded fault: the fallback weight of an unseen
\* query word is stored in the map (dict.setdefault for dict.get)
QueryContext_caching ==
    \E query \in QueryInputs, k \in 0..MaxK :
        LET unseen == Range(_tokenize(query)) \ DOMAIN idf
        IN  /\ Constructed
            /\ call' = Call("query_context", query, k, "none",
                            query_context(chunks, idf, query, k), FALSE)
            /\ idf' = [w \in DOMAIN idf \cup unseen |->
                         IF w \in DOMAIN idf THEN idf[w] ELSE ONE]
            /\ UNCHANGED <<chunks, file, io, faults, session, saving>>

QueryContext ==
    \E query \in QueryInputs, k \in 0..MaxK :
        /\ Constructed
        /\ call' = Call("query_context", query, k, "none",
                        query_context(chunks, idf, query, k), FALSE)
        /\ UNCHANGED <<chunks, idf, file, io, faults, session, saving>>

GetContextForPrompt ==
    \E topic \in QueryInputs :
        /\ Constructed
        /\ call' = Call("get_context_for_prompt", topic, PROMPT_K, "none",
                        get_context_for_prompt(chunks, idf, topic), FALSE)
        /\ UNCHANGED <<chunks, idf, file, io, faults, session, saving>>

\* os.remove is not guarded: when it raises, the exception leaves
\* clear_documents with the lists emptied and the file in place
clear_documents(rm) ==
    /\ Constructed
    /\ chunks' = <<>>
    /\ idf' = EMPTY_DICT
    /\ UNCHANGED <<session, saving>>
    /\ IF file.state = "absent"
       THEN /\ rm = "ok"
            /\ UNCHANGED <<file, io, faults>>
            /\ call' = Call("clear_documents", <<>>, 0, "none", NONE, FALSE)
       ELSE /\ faults + Fault(rm) <= MaxFaults
            /\ faults' = faults + Fault(rm)
            /\ file' = IF rm = "ok" THEN ABSENT ELSE file
            /\ io' = IF rm = "ok" THEN "removed" ELSE "remove_failed"
            /\ call' = Call("clear_documents", <<>>, 0, rm, NONE, rm # "ok")

ClearDocuments == \E rm \in {"ok", "fails"} : clear_documents(rm)

\* the index and its storage, storage failures included
Next ==
    \/ Restart
    \/ AddDocument
    \/ ClearDocuments

Spec == Init /\ [][Next]_vars

AddDocumentStored == \E u \in Uploads : add_document(u, {"ok"})

ClearDocumentsStored == clear_documents("ok")

\* the index and its queries, on storage that works
NextQuery ==
    \/ AddDocumentStored
    \/ ClearDocumentsStored
    \/ QueryContext
    \/ GetContextForPrompt

SpecQuery == Init /\ [][NextQuery]_vars

---------------------------------------------------------------------------
(* The prompt block: get_context_for_prompt on an index that was built by  *)
(* up to MaxDocs uploads, saved, and loaded again by a new RAGService().   *)

MaxDocs == 3

\* single chunks of exactly 250 and of 251 characters
DOC_250 == <<"m","l"," ">> \o Rep("-", 247)

DOC_251 == <<"a","i"," ">> \o Rep("-", 248)

PromptUploads ==
    {u \in Uploads : u.filename \in {<<"B",".","T","X","T">>,
                                     <<"d",".","d","o","c","x">>,
                                     <<"s",".","p","d","f">>,
                                     <<"l",".","t","x","t">>}}
    \cup {Upload(<<"m",".","t","x","t">>, DOC_250, Raises),
          Upload(<<"n",".","t","x","t">>, DOC_251, Raises)}

\* self._chunks after add_document of each upload of us, in order
RECURSIVE Indexed(_)
Indexed(us) ==
    IF us = <<>> THEN <<>>
    ELSE LET u == us[Len(us)]
             text == _parse_document(u.bytes, u.filename, u.lib)
             before == Indexed(SubSeq(us, 1, Len(us) - 1))
         IN  IF text = <<>> THEN before
             ELSE before \o _chunk_text(text, u.filename)

InitPrompt ==
    \E us \in UNION {[1..n -> PromptUploads] : n \in 0..MaxDocs} :
        LET stored == Indexed(us)
        IN  /\ file = IF stored = <<>> THEN ABSENT
                      ELSE _save_storage(stored, ABSENT, "ok")
            /\ chunks = _load_storage(file, "ok")
            /\ idf = _compute_idf(chunks, EMPTY_DICT)
            /\ io = "none"
            /\ call = Call("__init__", <<>>, 0, "ok", NONE, FALSE)
            /\ faults = 0
            /\ session = NO_SESSION
            /\ saving = NOT_SAVING

NextPrompt == GetContextForPrompt

SpecPrompt == InitPrompt /\ [][NextPrompt]_vars

---------------------------------------------------------------------------
(* The chunker alone: on every text over a small alphabet, with the        *)
(* service's chunk size and with a small one, and on whole documents with  *)
(* the service's chunk size.                                               *)

MaxTextLen == 6

SmallSize == 6

SmallOverlap == 2

TextAlphabet == {"a", " ", ".", "\n"}

Texts == UNION {[1..n -> TextAlphabet] : n \in 0..MaxTextLen}

\* the sequence s repeated n times
Repeat(s, n) == [i \in 1..(n * Len(s)) |-> s[((i - 1) % Len(s)) + 1]]

\* documents of 1200 characters: one without any separator, one of short
\* sentences
DOC_PLAIN == Rep("x", 1200)

DOC_PROSE == Repeat(<<"g","o"," ","a","i",".","\n">>, 171) \o <<"e","n","d">>

\* a document with a run of blanks longer than two windows: the window that
\* lies inside the run has no text
DOC_GAP == Rep("x", 500) \o Rep(" ", 1000) \o Rep("y", 3)

Documents == {DOC_PLAIN, DOC_PROSE, LONG_TEXT, DOC_GAP}

\* the service's configuration, and two small ones that the short texts
\* reach: in the second a separator can cut a window short
ChunkConfigs == {<<CHUNK_SIZE, CHUNK_OVERLAP>>, <<SmallSize, SmallOverlap>>,
                 <<SmallSize - 1, SmallOverlap - 1>>}

SOURCE == <<"f",".","t","x","t">>

InitChunk ==
    /\ file = ABSENT
    /\ chunks = <<>>
    /\ idf = EMPTY_DICT
    /\ io = "none"
    /\ faults = 0
    /\ session = NO_SESSION
    /\ saving = NOT_SAVING
    /\ \/ \E text \in Texts, cfg \in ChunkConfigs :
             call = Call("input", text, cfg[1], cfg[2], NONE, FALSE)
       \/ \E text \in Documents :
             call = Call("input", text, CHUNK_SIZE, CHUNK_OVERLAP, NONE, FALSE)

ChunkTextCall ==
    /\ call.op = "input"
    /\ call' = [call EXCEPT !.op = "_chunk_text",
                            !.ret = ChunkText(call.arg, SOURCE, call.k, call.env)]
    /\ UNCHANGED <<chunks, idf, file, io, faults, session, saving>>

NextChunk == ChunkTextCall

SpecChunk == InitChunk /\ [][NextChunk]_vars

---------------------------------------------------------------------------
(* Cosine similarity alone, in floating point: both ways round on every    *)
(* pair of vectors over three words, with every order in which the set of  *)
(* common words can be iterated.                                           *)

WORDS == <<"a", "b", "c">>

\* a word is absent (<<>>) or has one of these weights
Weights == {Float(0), Float(1), Float(10)}

Vector(f) ==
    LET present == SelectSeq(WORDS, LAMBDA w : f[w] # <<>>)
    IN  [i \in 1..Len(present) |-> <<present[i], f[present[i]]>>]

Vectors == {Vector(f) : f \in [Range(WORDS) -> Weights \cup {<<>>}]}

\* the orders in which a set can yield its elements
Orders(S) ==
    {o \in [1..Cardinality(S) -> S] :
        \A i, j \in 1..Cardinality(S) : o[i] = o[j] => i = j}

InitCosine ==
    /\ file = ABSENT
    /\ chunks = <<>>
    /\ idf = EMPTY_DICT
    /\ io = "none"
    /\ faults = 0
    /\ session = NO_SESSION
    /\ saving = NOT_SAVING
    /\ \E vec1, vec2 \in Vectors :
          call = Call("input", <<vec1, vec2>>, 0, "none", NONE, FALSE)

\* _cosine_similarity(vec1, vec2), then _cosine_similarity(vec2, vec1)
CosineSimilarityCall ==
    /\ call.op = "input"
    /\ LET vec1 == call.arg[1]
           vec2 == call.arg[2]
           common == DictKeys(vec1) \cap DictKeys(vec2)
       IN  \E there, back \in Orders(common) :
              call' = [call EXCEPT
                         !.op = "_cosine_similarity",
                         !.ret = <<_cosine_similarity_float(vec1, vec2, there),
                                   _cosine_similarity_float(vec2, vec1, back)>>]
    /\ UNCHANGED <<chunks, idf, file, io, faults, session, saving>>

NextCosine == CosineSimilarityCall

SpecCosine == InitCosine /\ [][NextCosine]_vars

---------------------------------------------------------------------------
(* The tokenizer alone, on every text up to MaxTokenText characters over   *)
(* letters of both cases, a digit, the underscore, a space and a full      *)
(* stop; "as" is a stop word.                                              *)

MaxTokenText == 4

TokenAlphabet == {"a", "s", "B", "1", "_", " ", "."}

TokenTexts == UNION {[1..n -> TokenAlphabet] : n \in 0..MaxTokenText}

InitTokenize ==
    /\ file = ABSENT
    /\ chunks = <<>>
    /\ idf = EMPTY_DICT
    /\ io = "none"
    /\ faults = 0
    /\ session = NO_SESSION
    /\ saving = NOT_SAVING
    /\ \E text \in TokenTexts :
          call = Call("input", text, 0, "none", NONE, FALSE)

TokenizeCall ==
    /\ call.op = "input"
    /\ call' = [call EXCEPT !.op = "_tokenize", !.ret = _tokenize(call.arg)]
    /\ UNCHANGED <<chunks, idf, file, io, faults, session, saving>>

NextTokenize == TokenizeCall

SpecTokenize == InitTokenize /\ [][NextTokenize]_vars

---------------------------------------------------------------------------
(* The chunker step by step: one step strips the text and takes the        *)
(* branch, one step is one iteration of the while loop, one step returns.  *)
(* Inside the loop call.arg is the stripped text and call.ret holds the    *)
(* locals start, idx and chunks.                                           *)

LoopAlphabet == {"a", " ", "."}

LoopTexts == UNION {[1..n -> LoopAlphabet] : n \in 0..MaxTextLen}

\* no call has been made
InitLoop ==
    /\ file = ABSENT
    /\ chunks = <<>>
    /\ idf = EMPTY_DICT
    /\ io = "none"
    /\ faults = 0
    /\ session = NO_SESSION
    /\ saving = NOT_SAVING
    /\ call = Call("idle", <<>>, 0, 0, NONE, FALSE)

\* the caller passes a text
ChunkCall ==
    /\ call.op = "idle"
    /\ \/ \E text \in LoopTexts, cfg \in ChunkConfigs \ {<<CHUNK_SIZE, CHUNK_OVERLAP>>} :
             call' = Call("input", text, cfg[1], cfg[2], NONE, FALSE)
       \/ \E text \in Documents :
             call' = Call("input", text, CHUNK_SIZE, CHUNK_OVERLAP, NONE, FALSE)
    /\ UNCHANGED <<chunks, idf, file, io, faults, session, saving>>

ChunkEnter ==
    /\ call.op = "input"
    /\ LET text == Strip(call.arg)
       IN  IF Len(text) < call.k
           THEN call' = [call EXCEPT !.op = "_chunk_text",
                                     !.ret = <<NewChunk(text, SOURCE, 0)>>]
           ELSE call' = [call EXCEPT !.op = "while",
                                     !.arg = text,
                                     !.ret = [start |-> 0, idx |-> 0,
                                              chunks |-> <<>>]]
    /\ UNCHANGED <<chunks, idf, file, io, faults, session, saving>>

\* one iteration; end, chunk_text and the chunk are computed once each
ChunkIteration ==
    /\ call.op = "while"
    /\ call.ret.start < Len(call.arg)
    /\ \E end \in {WindowEnd(call.arg, call.ret.start, call.k)} :
       \E chunk_text \in {Strip(Slice(call.arg, call.ret.start, end))} :
       \E emitted \in {IF chunk_text # <<>>
                       THEN <<NewChunk(chunk_text, SOURCE, call.ret.idx)>>
                       ELSE <<>>} :
          call' = [call EXCEPT !.ret =
                     [start |-> NextStart(call.ret.start, end, call.env),
                      idx |-> call.ret.idx + Len(emitted),
                      chunks |-> call.ret.chunks \o emitted]]
    /\ UNCHANGED <<chunks, idf, file, io, faults, session, saving>>

ChunkReturn ==
    /\ call.op = "while"
    /\ ~(call.ret.start < Len(call.arg))
    /\ call' = [call EXCEPT !.op = "_chunk_text", !.ret = call.ret.chunks]
    /\ UNCHANGED <<chunks, idf, file, io, faults, session, saving>>

NextLoop ==
    \/ ChunkCall
    \/ ChunkEnter
    \/ ChunkIteration
    \/ ChunkReturn

\* the interpreter keeps executing the call
SpecLoop == InitLoop /\ [][NextLoop]_vars /\ WF_vars(NextLoop)
---------------------------------------------------------------------------
(* The interview handlers and the pages that call them.  A handler is an   *)
(* operator from the session to [session, ret, raised]; the actions are    *)
(* the buttons the router of streamlit_app.py offers in a session state.   *)

\* the keyword parameters of GroqService.get_response_from_audio
GROQ_PARAMETERS == {"audio_bytes", "mode", "difficulty", "history"}

\* the keywords process_audio_turn passes to it, after the audio
GROQ_KEYWORDS ==
    {"mode", "difficulty", "history", "cv_summary", "company_context"}

\* the keys of the review the fallback of analyze_interview returns
REVIEW_KEYS ==
    {"overall_score", "strengths", "weaknesses", "feedback", "metrics",
     "recommendations", "improvement_exercises"}

MIN_AUDIO_BYTES == 1000

\* bool(review_data)
Truthy(review_data) == review_data[1] = "dict" /\ review_data[2] # {}

\* not audio_bytes: None or an empty buffer
NoAudio(audio) == ~audio.given \/ audio.len = 0

\* RAGService() in a handler, its has_documents() and, for an index with
\* documents, get_context_for_prompt(topic); raised when __init__ raises
RagLookup(topic) ==
    LET Looked(loaded) ==
            IF ~Tokenizable(loaded)
            THEN [raised |-> TRUE, chunks |-> <<>>, has |-> FALSE,
                  context |-> <<>>]
            ELSE [raised |-> FALSE,
                  chunks |-> loaded,
                  has |-> has_documents(loaded),
                  context |->
                      IF has_documents(loaded)
                      THEN get_context_for_prompt(
                               loaded, _compute_idf(loaded, EMPTY_DICT), topic)
                      ELSE <<>>]
    IN  Looked(_load_storage(file, "ok"))

\* start_new_interview: db is what repo.create_session does
start_new_interview(s, mode, difficulty, db) ==
    LET id == s.db + 1
        Greeted(rag, initial_msg) ==
            [s EXCEPT
               !.db = id,
               !.rag = rag.chunks,
               !.state =
                  [@ EXCEPT
                     !.session_id = id,
                     !.interview_mode = mode,
                     !.difficulty_level = difficulty,
                     !.turn_number = 0,
                     !.messages = <<[role |-> "assistant",
                                     content |-> initial_msg]>>,
                     !.interview_active = TRUE,
                     !.review_data = NO_REVIEW,
                     !.turn_analytics = <<>>,
                     !.last_ai_message = initial_msg,
                     !.recorder_key = @ + 1]]
        Looked(rag) ==
            Greeted(rag,
                    InitialMessage(mode, difficulty,
                                   (~rag.raised /\ rag.has)
                                     /\ rag.context # <<>>))
    IN  IF db # "ok" THEN [session |-> s, ret |-> NONE, raised |-> TRUE]
        ELSE [session |-> Looked(RagLookup(RAG_TOPIC)),
              ret |-> NONE, raised |-> FALSE]

\* the file save_user_audio leaves: the repaired recording, or the raw
\* one when ffmpeg fails
UserAudio(save, session_id, turn_num) ==
    IF save = "ok" THEN {<<"user", session_id, turn_num>>}
    ELSE {<<"user_raw", session_id, turn_num>>}

CANDIDATE_TEXT ==
    <<"I"," ","u","s","e"," ","m","l">>

AI_REPLY ==
    <<"H","o","w"," ","d","i","d"," ","y","o","u"," ","u","s","e"," ","m",
      "l","?">>

\* process_audio_turn with a seeded fault: the turn is counted before the
\* audio is looked at
process_audio_turn_counting_first(s, audio, save) ==
    LET counted == [s EXCEPT !.state.turn_number = @ + 1]
    IN  IF NoAudio(audio) \/ audio.len < MIN_AUDIO_BYTES
        THEN [session |-> counted, ret |-> FALSE, raised |-> FALSE]
        ELSE [session |-> counted, ret |-> NONE, raised |-> TRUE]

\* process_audio_turn: save is what save_user_audio does.  The call of
\* get_response_from_audio binds its keywords first: a keyword that is no
\* parameter raises TypeError before the service is entered
process_audio_turn(s, audio, save) ==
    IF NoAudio(audio) \/ audio.len < MIN_AUDIO_BYTES
    THEN [session |-> s, ret |-> FALSE, raised |-> FALSE]
    ELSE LET turn_num == s.state.turn_number + 1
             session_id == s.state.session_id
             rag == RagLookup(s.state.last_ai_message)
             saved == [s EXCEPT
                         !.state.turn_number = turn_num,
                         !.audio = @ \cup UserAudio(save, session_id, turn_num),
                         !.rag = rag.chunks]
         IN  IF ~(GROQ_KEYWORDS \subseteq GROQ_PARAMETERS)
             THEN [session |-> saved, ret |-> NONE, raised |-> TRUE]
             ELSE [session |->
                      [saved EXCEPT
                         !.audio = @ \cup {<<"ai", session_id, turn_num>>},
                         !.state =
                            [@ EXCEPT
                               !.turn_analytics =
                                   Append(@, [transcript |-> CANDIDATE_TEXT,
                                              bytes |-> audio.len]),
                               !.messages =
                                   @ \o <<[role |-> "user",
                                           content |-> CANDIDATE_TEXT],
                                          [role |-> "assistant",
                                           content |-> AI_REPLY]>>,
                               !.last_ai_message = AI_REPLY,
                               !.recorder_key = @ + 1]],
                   ret |-> TRUE, raised |-> FALSE]

\* end_interview_and_review with a seeded fault: interview_active is left
\* as it is
end_interview_and_review_staying_active(s, keys, db) ==
    LET review_data == <<"dict", keys \cup {"speech_analytics", "difficulty_level"}>>
    IN  IF db # "ok" THEN [session |-> s, ret |-> NONE, raised |-> TRUE]
        ELSE [session |-> [s EXCEPT !.state.review_data = review_data],
              ret |-> review_data, raised |-> FALSE]

\* end_interview_and_review: keys are the keys of the review that
\* analyze_interview returns, db is what repo.complete_session does
end_interview_and_review(s, keys, db) ==
    LET review_data == <<"dict", keys \cup {"speech_analytics", "difficulty_level"}>>
    IN  IF db # "ok" THEN [session |-> s, ret |-> NONE, raised |-> TRUE]
        ELSE [session |-> [s EXCEPT !.state.review_data = review_data,
                                    !.state.interview_active = FALSE],
              ret |-> review_data, raised |-> FALSE]

\* reset_state: the reset keys go back to DEFAULTS, session_id stays
reset_state(s) ==
    [s EXCEPT
       !.state = [DEFAULTS EXCEPT !.session_id = s.state.session_id,
                                  !.recorder_key = s.state.recorder_key + 1]]

\* the page the router renders
Page(state) ==
    IF Truthy(state.review_data) THEN "dashboard"
    ELSE IF state.interview_active THEN "interview"
    ELSE IF ~state.mode_selected THEN "mode_selection"
    ELSE "welcome"

MaxSessions == 2

MaxTurns == 1

MaxRecorderKey == 2

Modes == {TECHNICAL, HR}

\* the default difficulty and the highest
Difficulties == {5, 10}

Audio(given, len) == [given |-> given, len |-> len]

\* no recording, an empty one, and recordings around the minimum size
AudioInputs ==
    {Audio(FALSE, 0), Audio(TRUE, 0), Audio(TRUE, MIN_AUDIO_BYTES - 1),
     Audio(TRUE, MIN_AUDIO_BYTES), Audio(TRUE, MIN_AUDIO_BYTES + 1)}

\* an index of two chunks, one of them about the topic of the greeting
JOB_INDEX ==
    <<NewChunk(<<"j","o","b"," ","s","k","i","l","l","s">>,
               <<"j",".","t","x","t">>, 0),
      NewChunk(<<"m","l"," ","a","i">>, <<"m",".","t","x","t">>, 0)>>

\* the storage file the handlers find: none, one that makes RAGService()
\* raise, one of a single chunk and one that has a context for the greeting
SessionFiles ==
    {ABSENT, NULL_CONTENT,
     _save_storage(SubSeq(JOB_INDEX, 1, 1), ABSENT, "ok"),
     _save_storage(JOB_INDEX, ABSENT, "ok")}

InitSession ==
    /\ file \in SessionFiles
    /\ chunks = <<>>
    /\ idf = EMPTY_DICT
    /\ io = "none"
    /\ call = Call("init_state", <<>>, 0, "none", NONE, FALSE)
    /\ faults = 0
    /\ session = NO_SESSION
    /\ saving = NOT_SAVING

\* a start button of the welcome page: the page sets the mode and the
\* difficulty, then calls start_new_interview
StartNewInterview ==
    \E mode \in Modes, difficulty \in Difficulties, db \in {"ok", "fails"} :
        /\ Page(session.state) = "welcome"
        /\ session.db < MaxSessions
        /\ session.state.recorder_key < MaxRecorderKey
        /\ \E chosen \in {[session EXCEPT !.state.mode_selected = TRUE,
                                          !.state.interview_mode = mode,
                                          !.state.difficulty_level = difficulty]} :
           \E out \in {start_new_interview(chosen, mode, difficulty, db)} :
              /\ session' = out.session
              /\ call' = Call("start_new_interview", <<mode, difficulty>>, 0,
                              db, out.ret, out.raised)
        /\ UNCHANGED <<chunks, idf, file, io, faults, saving>>

\* the recorder of the interview page hands a recording to
\* process_audio_turn
ProcessAudioTurn ==
    \E audio \in AudioInputs, save \in {"ok", "ffmpeg_fails"} :
        /\ Page(session.state) = "interview"
        /\ \/ session.state.turn_number < MaxTurns
           \/ NoAudio(audio)
           \/ audio.len < MIN_AUDIO_BYTES
        /\ \E out \in {process_audio_turn(session, audio, save)} :
              /\ session' = out.session
              /\ call' = Call("process_audio_turn", audio, 0, save, out.ret,
                              out.raised)
        /\ UNCHANGED <<chunks, idf, file, io, faults, saving>>

\* "End & Review" of the sidebar, shown while interview_active
EndInterviewAndReview ==
    \E keys \in {{}, REVIEW_KEYS}, db \in {"ok", "fails"} :
        /\ session.state.interview_active
        /\ \E out \in {end_interview_and_review(session, keys, db)} :
              /\ session' = out.session
              /\ call' = Call("end_interview_and_review", keys, 0, db,
                              out.ret, out.raised)
        /\ UNCHANGED <<chunks, idf, file, io, faults, saving>>

\* "Start New Interview" of the sidebar, shown while no interview is active
ResetState ==
    /\ ~session.state.interview_active
    /\ session.state.mode_selected
    /\ session.state.recorder_key < MaxRecorderKey
    /\ session' = reset_state(session)
    /\ call' = Call("reset_state", <<>>, 0, "none", NONE, FALSE)
    /\ UNCHANGED <<chunks, idf, file, io, faults, saving>>

\* "Start New Interview" of the dashboard page: the router drops the review
LeaveDashboard ==
    /\ Page(session.state) = "dashboard"
    /\ session' = [session EXCEPT !.state.review_data = NO_REVIEW]
    /\ call' = Call("render_dashboard_page", <<>>, 0, "none", TRUE, FALSE)
    /\ UNCHANGED <<chunks, idf, file, io, faults, saving>>

NextSession ==
    \/ StartNewInterview
    \/ ProcessAudioTurn
    \/ EndInterviewAndReview
    \/ ResetState
    \/ LeaveDashboard

SpecSession == InitSession /\ [][NextSession]_vars

---------------------------------------------------------------------------
(* The documents page adds a document while an interview handler builds    *)
(* its own RAGService from the same storage file.  _save_storage is two    *)
(* steps: open(STORAGE_FILE, 'w') empties the file, and the data is in the *)
(* file when the with block closes it; until then the file holds nothing   *)
(* or a part of the data, which is no JSON document.                       *)

RaceUploads ==
    {Upload(<<"a",".","t","x","t">>, <<"j","o","b"," ","s","k","i","l","l","s">>,
            Raises),
     Upload(<<"b",".","t","x","t">>, <<"m","l"," ","a","i">>, Raises),
     Upload(<<"e",".","t","x","t">>, <<>>, Raises)}

\* add_document up to the open() of _save_storage; a document without
\* text returns 0 before
AddDocumentOpen ==
    \E u \in RaceUploads :
        LET text == _parse_document(u.bytes, u.filename, u.lib)
            new == _chunk_text(text, u.filename)
            all == chunks \o new
        IN  /\ ~saving.open
            /\ IF text = <<>>
               THEN /\ call' = Call("add_document", u, 0, "none", 0, FALSE)
                    /\ UNCHANGED <<chunks, idf, file, io, saving>>
               ELSE /\ Len(all) <= MaxChunks
                    /\ chunks' = all
                    /\ idf' = _compute_idf(all, idf)
                    /\ file' = CORRUPT
                    /\ io' = "open"
                    /\ saving' = [open |-> TRUE, upload |-> u,
                                  before |-> chunks]
                    /\ call' = Call("add_document", u, 0, "open", NONE, FALSE)
            /\ UNCHANGED <<faults, session>>

\* json.dump and the close of the file, then add_document returns
AddDocumentClose ==
    /\ saving.open
    /\ file' = _save_storage(chunks, file, "ok")
    /\ io' = "saved"
    /\ saving' = NOT_SAVING
    /\ call' = Call("add_document", saving.upload, 0, "ok",
                    Len(chunks) - Len(saving.before), FALSE)
    /\ UNCHANGED <<chunks, idf, faults, session>>

InitRace ==
    /\ file = ABSENT
    /\ chunks = <<>>
    /\ idf = EMPTY_DICT
    /\ io = "none"
    /\ call = Call("__init__", <<>>, 0, "ok", NONE, FALSE)
    /\ faults = 0
    /\ session = NO_SESSION
    /\ saving = NOT_SAVING

NextRace ==
    \/ AddDocumentOpen
    \/ AddDocumentClose
    \/ StartNewInterview
    \/ ProcessAudioTurn

SpecRace == InitRace /\ [][NextRace]_vars


---------------------------------------------------------------------------
(* Properties                                                              *)

TokenSets == [i \in 1..Len(chunks) |-> Range(_tokenize(chunks[i].content))]

\* C1: in every state the IDF map has an entry for exactly the tokens that
\* occur in at least one stored chunk, each entry is the logarithm of the
\* number of chunks over the number of chunks holding the token, and the
\* map is empty when no chunk is stored (checked under Spec, after adds,
\* clears and restarts).
C1_IdfMatchesChunks ==
    LET sets == List(TokenSets)
        vocabulary == UNION {sets[i] : i \in 1..Len(sets)}
    IN  /\ DOMAIN idf = vocabulary
        /\ \A w \in vocabulary :
             idf[w] = Log(Len(chunks),
                          Cardinality({i \in 1..Len(sets) : w \in sets[i]}))
        /\ chunks = <<>> => idf = EMPTY_DICT

C1_Witness ==
    /\ call.op = "add_document"
    /\ Len(chunks) = 3
    /\ \E w \in DOMAIN idf : idf[w] > 0
    /\ \E w \in DOMAIN idf : idf[w] = 0

\* C2: whenever the last write of the storage file succeeded, a new index
\* constructed on that file (its read succeeding) holds exactly the chunks
\* of this one: same content, source, id, keywords and order.
C2_SavedIndexReloads ==
    io = "saved" => _load_storage(file, "ok") = chunks

C2_Witness ==
    /\ io = "saved"
    /\ faults = 1
    /\ Len(chunks) >= 2
    /\ \E i \in 1..Len(chunks) : chunks[i].keywords # <<>>

Unsupported(filename) ==
    /\ ~EndsWith(Lower(filename), DOT_PDF)
    /\ ~EndsWith(Lower(filename), DOT_DOCX)
    /\ ~EndsWith(Lower(filename), DOT_TXT)

ParseFails(u) ==
    /\ EndsWith(Lower(u.filename), DOT_PDF) \/ EndsWith(Lower(u.filename), DOT_DOCX)
    /\ u.lib.raises

YieldsNoText(u) == u.bytes = <<>> \/ Unsupported(u.filename) \/ ParseFails(u)

\* C3: an add_document call whose upload is an empty byte buffer, has an
\* unsupported file type or fails to parse returns 0 without raising and
\* leaves the chunk list, the IDF map and the storage file as they were.
C3_NoTextAddsNothing ==
    [][(call'.op = "add_document" /\ YieldsNoText(call'.arg))
         => /\ call'.ret = 0
            /\ ~call'.raised
            /\ UNCHANGED <<chunks, idf, file>>]_vars

C3_Witness ==
    /\ call.op = "add_document"
    /\ Unsupported(call.arg.filename)
    /\ call.arg.bytes # <<>>
    /\ call.ret = 0
    /\ chunks # <<>>
    /\ file.state = "json"

\* C4: after a clear_documents call the index has no documents, its chunk
\* count is zero, its IDF map is empty, the storage file is gone, and an
\* index constructed afterwards starts empty.
C4_ClearLeavesNothing ==
    call.op = "clear_documents"
      => /\ ~has_documents(chunks)
         /\ get_document_count(chunks) = 0
         /\ idf = EMPTY_DICT
         /\ file = ABSENT
         /\ _load_storage(file, "ok") = <<>>

\* C5: on an index with no chunks query_context returns the empty list and
\* get_context_for_prompt the empty string, and neither raises.
C5_EmptyIndexAnswersEmpty ==
    (chunks = <<>> /\ call.op \in {"query_context", "get_context_for_prompt"})
      => (call.ret = <<>> /\ ~call.raised)

C5_Witness ==
    /\ chunks = <<>>
    /\ call.op = "get_context_for_prompt"
    /\ _tokenize(call.arg) # <<>>
    /\ call.ret = <<>>

ChunkScore(i, query) ==
    _cosine_similarity(_get_tfidf_vector(query, idf),
                       _get_tfidf_vector(chunks[i].content, idf))

Result(i, query) ==
    [content |-> chunks[i].content, source |-> chunks[i].source,
     score |-> ChunkScore(i, query)]

Min(a, b) == IF a < b THEN a ELSE b

\* C6: query_context(q, k) returns at most k results, every one with a
\* score above zero, and they are the min(k, number of chunks with a
\* positive score) best chunks: the chunk returned at position r is the one
\* that r - 1 positive chunks precede, a chunk preceding another when its
\* score is higher or, at equal scores, when it was inserted earlier.
C6_TopKByScoreThenInsertion ==
    call.op = "query_context" =>
      LET score == List([i \in 1..Len(chunks) |-> ChunkScore(i, call.arg)])
          positive == {i \in 1..Len(chunks) : score[i][1] > 0}
          Precedes(j, i) == \/ ScoreLess(score[i], score[j])
                            \/ score[i] = score[j] /\ j < i
          rank(i) == 1 + Cardinality({j \in positive : Precedes(j, i)})
      IN  /\ Len(call.ret) = Min(call.k, Cardinality(positive))
          /\ Len(call.ret) <= call.k
          /\ \A r \in 1..Len(call.ret) : call.ret[r].score[1] > 0
          /\ \A i \in positive :
               rank(i) <= call.k =>
                 call.ret[rank(i)] = [content |-> chunks[i].content,
                                      source |-> chunks[i].source,
                                      score |-> score[i]]

C6_Witness ==
    /\ call.op = "query_context"
    /\ call.k = 2
    /\ Len(call.ret) = 2
    /\ call.ret[1].score = call.ret[2].score
    /\ call.ret[1].source # call.ret[2].source
    /\ call.ret[1].source = chunks[1].source

StoredAs(query) == {i \in 1..Len(chunks) : chunks[i].content = query}

\* C7 as stated: a query_context call (k >= 1) with the exact full text of
\* a stored chunk returns that chunk first.
C7_ExactTextReturnedFirst ==
    (call.op = "query_context" /\ call.k >= 1 /\ StoredAs(call.arg) # {})
      => /\ call.ret # <<>>
         /\ call.ret[1].content = call.arg
         /\ \E i \in StoredAs(call.arg) : call.ret[1].source = chunks[i].source

\* C7 amended: in a query_context call with the exact full text of a stored
\* chunk no chunk scores higher than that chunk.  When its score is zero
\* the result is empty; otherwise its score is 1 and, for k >= 1, the first
\* result is the earliest inserted chunk with that score.
C7_ExactTextScoresHighest ==
    (call.op = "query_context" /\ StoredAs(call.arg) # {})
      => LET score == List([i \in 1..Len(chunks) |-> ChunkScore(i, call.arg)])
         IN  \A i \in StoredAs(call.arg) :
               /\ \A j \in 1..Len(chunks) : ~ScoreLess(score[i], score[j])
               /\ score[i][1] = 0 => call.ret = <<>>
               /\ score[i][1] > 0 =>
                    /\ score[i] = <<1, 1>>
                    /\ call.k >= 1 =>
                         LET first == CHOOSE j \in 1..Len(chunks) :
                                        /\ score[j] = score[i]
                                        /\ \A m \in 1..(j - 1) : score[m] # score[i]
                         IN  call.ret[1] = Result(first, call.arg)

C7_Witness ==
    /\ call.op = "query_context"
    /\ call.k >= 2
    /\ StoredAs(call.arg) = {2}
    /\ Len(call.ret) >= 2
    /\ call.ret[1].content = call.arg
    /\ ScoreLess(call.ret[2].score, call.ret[1].score)

\* C8: a query_context or get_context_for_prompt call leaves the chunk
\* list, the IDF map and the storage file as they were, and what it returns
\* is what the same call returns on the state it leaves, so a repeated
\* query, or one made between other queries, returns the same result.
C8_QueriesReadOnly ==
    [][/\ call'.op = "query_context"
          => /\ UNCHANGED <<chunks, idf, file>>
             /\ call'.ret = query_context(chunks', idf', call'.arg, call'.k)
       /\ call'.op = "get_context_for_prompt"
          => /\ UNCHANGED <<chunks, idf, file>>
             /\ call'.ret = get_context_for_prompt(chunks', idf', call'.arg)]_vars

C8_Witness ==
    /\ call.op = "query_context"
    /\ call.ret # <<>>
    /\ Range(_tokenize(call.arg)) \ DOMAIN idf # {}
    /\ file.state = "json"

\* C9: an add_document call returns the number of chunks it appended, and
\* every chunk stored before it is still there, unmodified and in its
\* position, ahead of the new ones.
C9_AddAppends ==
    [][call'.op = "add_document"
         => /\ ~call'.raised
            /\ Len(chunks') = Len(chunks) + call'.ret
            /\ SubSeq(chunks', 1, Len(chunks)) = chunks]_vars

C9_Witness ==
    /\ call.op = "add_document"
    /\ call.ret = 2
    /\ Len(chunks) = 3

\* content is text without its leading and trailing whitespace
IsStripped(content, text) ==
    /\ content # <<>> =>
         (content[1] \notin Whitespace /\ content[Len(content)] \notin Whitespace)
    /\ \E lead \in 0..Len(text) :
         /\ \A p \in 1..lead : text[p] \in Whitespace
         /\ lead + Len(content) <= Len(text)
         /\ SubSeq(text, lead + 1, lead + Len(content)) = content
         /\ \A p \in (lead + Len(content) + 1)..Len(text) : text[p] \in Whitespace

\* C10: for a text shorter than the chunk size the chunker produces exactly
\* one chunk, whose content is the text without its leading and trailing
\* whitespace.
C10_ShortTextOneChunk ==
    (call.op = "_chunk_text" /\ Len(call.arg) < call.k)
      => /\ Len(call.ret) = 1
         /\ IsStripped(call.ret[1].content, call.arg)

C10_Witness ==
    /\ call.op = "_chunk_text"
    /\ call.k = CHUNK_SIZE
    /\ Len(call.arg) >= 3
    /\ call.arg[1] \in Whitespace
    /\ call.arg[Len(call.arg)] \in Whitespace
    /\ Len(call.ret) = 1
    /\ call.ret[1].content # <<>>

ParsedText(u) == _parse_document(u.bytes, u.filename, u.lib)

\* C11: chunking a text that is empty or only whitespace produces no
\* chunk, and an add_document call whose document has such a text returns
\* 0 and leaves the chunk list as it was.
C11_BlankTextNoChunks ==
    [][(call'.op = "add_document" /\ Strip(ParsedText(call'.arg)) = <<>>)
         => /\ _chunk_text(ParsedText(call'.arg), call'.arg.filename) = <<>>
            /\ call'.ret = 0
            /\ chunks' = chunks]_vars

\* C12: chunking a document of 1200 characters that has no leading or
\* trailing whitespace, with chunk size 500 and overlap 50, yields exactly
\* 3 chunks.
C12_ThreeChunksOf1200 ==
    (/\ call.op = "_chunk_text"
     /\ call.k = CHUNK_SIZE /\ call.env = CHUNK_OVERLAP
     /\ Len(call.arg) = 1200
     /\ Strip(call.arg) = call.arg)
      => Len(call.ret) = 3

ChunkContents(cs) == [j \in 1..Len(cs) |-> cs[j].content]

\* the stripped, non-empty texts of the windows, in order
WindowTexts(text, w) ==
    SelectSeq(List([i \in 1..Len(w) |-> Strip(Slice(text, w[i][1], w[i][2]))]),
              LAMBDA t : t # <<>>)

WindowsCover(text, w, cs) ==
    /\ w # <<>>
    /\ w[1][1] = 0
    /\ \A i \in 2..Len(w) : w[i][1] <= w[i - 1][2]
    /\ w[Len(w)][2] = Len(text)
    /\ ChunkContents(cs) = WindowTexts(text, w)
    /\ \A p \in 1..Len(text) :
          text[p] \notin Whitespace
            => \E i \in 1..Len(w) : w[i][1] < p /\ p <= w[i][2]

\* C13: for a text whose stripped form is at least as long as the chunk
\* size, the windows of the chunking loop cover the stripped text without a
\* gap: the first starts at offset 0, each next one starts at or before the
\* end of the one before, the last ends at the end of the text, the chunks
\* are the stripped non-empty window texts in order, and so every character
\* that is not whitespace lies in a window that became a chunk.
C13_WindowsCoverText ==
    (call.op = "_chunk_text" /\ Len(Strip(call.arg)) >= call.k)
      => WindowsCover(Strip(call.arg),
                      List(Windows(Strip(call.arg), 0, call.k, call.env)),
                      call.ret)

\* a text of three windows, the first of them cut short at a separator
C13_Witness ==
    /\ call.op = "_chunk_text"
    /\ Len(call.arg) = SmallSize
    /\ call.k = SmallSize - 1
    /\ Strip(call.arg) = call.arg
    /\ Windows(call.arg, 0, call.k, call.env)[1][2] < call.k
    /\ Len(call.ret) = 3

\* a record of the storage file that is a chunk record: the fields of
\* DocumentChunk, with a text as content
IsChunkRecord(obj) ==
    Constructible(obj) /\ Member(obj, "content") # JSON_NULL

\* the storage file exists and cannot be read (rd) or is not a list of
\* chunk records
BadStorage(f, rd) ==
    /\ f.state # "absent"
    /\ \/ rd = "fails"
       \/ f.state = "corrupt"
       \/ \E i \in 1..Len(f.data) : ~IsChunkRecord(f.data[i])

\* C14: when the storage file exists but cannot be read or parsed as a list
\* of chunk records, constructing the index does not raise and yields an
\* empty index: no chunks and an empty IDF map.
C14_BadStorageEmptyIndex ==
    (call.op = "__init__" /\ BadStorage(file, call.env))
      => /\ ~call.raised
         /\ chunks = <<>>
         /\ idf = EMPTY_DICT

\* C15: when the write of the storage file fails during add_document, the
\* call does not raise and returns the number of chunks it added.
C15_FailedSaveStillReturns ==
    [][(call'.op = "add_document" /\ call'.env \in {"open_fails", "write_fails"})
         => /\ ~call'.raised
            /\ call'.ret = Len(chunks') - Len(chunks)
            /\ call'.ret =
                 Len(_chunk_text(ParsedText(call'.arg), call'.arg.filename))]_vars

C15_Witness ==
    /\ call.op = "add_document"
    /\ call.env = "write_fails"
    /\ ~call.raised
    /\ call.ret = 2
    /\ Len(chunks) = 3
    /\ file = CORRUPT

\* C16: no operation raises when document parsing fails or when an access
\* to the storage file (read, write or delete) fails.
C16_NoFaultIsFatal ==
    (\/ call.env \in {"fails", "open_fails", "write_fails"}
     \/ (call.op = "add_document" /\ ParseFails(call.arg)))
      => ~call.raised

\* C17: an add_document call that repeats the call before it, with the same
\* bytes and file name, leaves the index with the chunks and the chunk
\* count it had after the first call.
C17_ReindexingIdempotent ==
    [][(/\ call.op = "add_document"
        /\ call'.op = "add_document"
        /\ call'.arg = call.arg)
         => /\ chunks' = chunks
            /\ get_document_count(chunks') = get_document_count(chunks)]_vars

\* every chunk with a positive score for the topic, in rank order
Ranked(topic) == query_context(chunks, idf, topic, Len(chunks))

\* a content as the block shows it
Shown(content) ==
    IF Len(content) > 250 THEN SubSeq(content, 1, 250) \o <<".", ".", ".">>
    ELSE content

\* the header line, then the first n results of ranked, numbered from 1
Block(ranked, n) ==
    Join(<<"\n">>,
         <<HEADER>> \o [i \in 1..n |->
                          Str(i) \o <<".", " ">> \o Shown(ranked[i].content)])

\* C18: get_context_for_prompt returns the empty string exactly when the
\* query yields no result; otherwise it returns one header line followed by
\* the first 3 results (all of them when there are fewer) in rank order,
\* numbered from 1, each content cut to its first 250 characters and "..."
\* when it is longer than 250 characters and unchanged otherwise.
C18_PromptBlock ==
    call.op = "get_context_for_prompt"
      => LET ranked == Ranked(call.arg)
         IN  /\ (call.ret = <<>>) <=> (ranked = <<>>)
             /\ ranked # <<>> => call.ret = Block(ranked, Min(3, Len(ranked)))

\* four chunks match the topic; of the three shown one is cut and one is
\* shown whole
C18_Witness ==
    /\ call.op = "get_context_for_prompt"
    /\ Len(Ranked(call.arg)) >= 4
    /\ \E i \in 1..3 : Len(Ranked(call.arg)[i].content) > 250
    /\ \E i \in 1..3 : Len(Ranked(call.arg)[i].content) <= 250
    /\ call.ret # <<>>

\* C19: recomputing the IDF map twice in succession, the chunk list staying
\* as it is, leaves the map that recomputing it once leaves, whatever map
\* the first recomputation found: the current one or an empty one.
C19_RecomputeIdempotent ==
    \A found \in {idf, EMPTY_DICT} :
        LET once == _compute_idf(chunks, found)
            twice == _compute_idf(chunks, once)
        IN  twice = once

C19_Witness ==
    /\ call.op = "add_document"
    /\ Len(chunks) >= 2
    /\ \E w \in DOMAIN idf : idf[w] > 0
    /\ _compute_idf(chunks, EMPTY_DICT) = idf

\* the sum of the squares of the weights is zero
ZeroNorm(vec) == \A i \in 1..Len(vec) : vec[i][2] = FLOAT_ZERO

\* C20: for two vectors of non-negative weights, cosine similarity is the
\* same both ways round and lies in [0, 1], and it is 0 when a vector is
\* empty, when the vectors share no word, or when a norm is 0.
C20_CosineSymmetricInUnitRange ==
    call.op = "_cosine_similarity"
      => LET vec1 == call.arg[1]
             vec2 == call.arg[2]
             there == call.ret[1]
             back == call.ret[2]
         IN  /\ there = back
             /\ ~FloatLess(there, FLOAT_ZERO)
             /\ ~FloatLess(Float(1), there)
             /\ (\/ vec1 = <<>> \/ vec2 = <<>>
                 \/ DictKeys(vec1) \cap DictKeys(vec2) = {}
                 \/ ZeroNorm(vec1) \/ ZeroNorm(vec2))
                  => there = FLOAT_ZERO

---------------------------------------------------------------------------
(* The tokenizer                                                           *)

\* the spans <<i, j>> of text whose characters are all in Letters, that are
\* at least 2 long, not a stop word, and that no character of Bounding
\* adjoins
WordSpans(text, Letters, Bounding) ==
    {span \in (1..Len(text)) \X (1..Len(text)) :
        /\ span[2] - span[1] + 1 >= 2
        /\ \A p \in span[1]..span[2] : text[p] \in Letters
        /\ span[1] = 1 \/ text[span[1] - 1] \notin Bounding
        /\ span[2] = Len(text) \/ text[span[2] + 1] \notin Bounding
        /\ SubSeq(text, span[1], span[2]) \notin STOP_WORDS}

\* tokens are the texts of the spans, in the order of the spans
IsSpanTexts(tokens, text, spans) ==
    /\ Len(tokens) = Cardinality(spans)
    /\ \A span \in spans :
          tokens[1 + Cardinality({s \in spans : s[1] < span[1]})]
            = SubSeq(text, span[1], span[2])

---------------------------------------------------------------------------
(* The chunking loop                                                       *)

\* C22: the chunker terminates on every text: every iteration of the loop
\* moves the window start strictly forward, so the call returns; and what
\* it returns is what _chunk_text computes.
C22_ChunkerTerminates ==
    /\ [][(call.op = "while" /\ call'.op = "while")
            => call'.ret.start > call.ret.start]_vars
    /\ (call.op = "input") ~> (call.op = "_chunk_text")
    /\ [](call.op = "_chunk_text"
            => call.ret = ChunkText(call.arg, SOURCE, call.k, call.env))

\* a loop that ran at least three times has returned
C22_Witness ==
    /\ call.op = "_chunk_text"
    /\ Len(call.arg) >= call.k
    /\ Len(call.ret) >= 3

\* the offsets at which sep occurs wholly inside text[start:end]
Occurrences(text, sep, start, end) ==
    {p \in start..end : /\ p + Len(sep) <= end
                        /\ Slice(text, p, p + Len(sep)) = sep}

Highest(S) == CHOOSE p \in S : \A r \in S : r <= p

\* sep occurs in the window and its last occurrence is strictly past the
\* midpoint start + size / 2
PastMidpoint(text, sep, start, size) ==
    LET occ == Occurrences(text, sep, start, start + size)
    IN  occ # {} /\ 2 * Highest(occ) > 2 * start + size

\* the end the separators ". ", newline, space, tried in this order, give
\* the window that starts at start
SeparatorEnd(text, start, size) ==
    LET order == << <<".", " ">>, <<"\n">>, <<" ">> >>
        good == {s \in 1..3 : PastMidpoint(text, order[s], start, size)}
    IN  IF good = {} THEN start + size
        ELSE LET first == CHOOSE s \in good : \A r \in good : s <= r
             IN  Highest(Occurrences(text, order[first], start, start + size)) + 1

\* C23: a window that does not reach the end of the text ends one past the
\* last occurrence of the first separator, in the order ". ", newline,
\* space, whose last occurrence inside the window lies strictly past the
\* window midpoint, and at start + chunk_size when no separator qualifies;
\* the chunks returned are the texts of these windows.
C23_SeparatorsInOrder ==
    (call.op = "_chunk_text" /\ Len(Strip(call.arg)) >= call.k)
      => LET text == Strip(call.arg)
             w == List(Windows(text, 0, call.k, call.env))
         IN  /\ \A i \in 1..Len(w) :
                   w[i][1] + call.k < Len(text)
                     => w[i][2] = SeparatorEnd(text, w[i][1], call.k)
             /\ ChunkContents(call.ret) = WindowTexts(text, w)

\* a newline past the midpoint ends the first window although a space
\* follows it inside the window
C23_Witness ==
    /\ call.op = "_chunk_text"
    /\ Strip(call.arg) = call.arg
    /\ Len(call.arg) > call.k
    /\ call.arg[call.k - 1] = "\n"
    /\ call.arg[call.k] = " "
    /\ Windows(call.arg, 0, call.k, call.env)[1][2] = call.k - 1
    /\ call.ret[1].content = Strip(Slice(call.arg, 0, call.k - 1))

\* the windows of text that have a text left after stripping
TextWindows(text, w) ==
    {i \in 1..Len(w) : Strip(Slice(text, w[i][1], w[i][2])) # <<>>}

\* C24: the chunks of one call carry the indices 0, 1, 2, ... in the order
\* they are emitted, windows without text taking no index: chunk j (from
\* 0) has the chunk_id taken of "<source>_<j>" and the call's source, there
\* are as many chunks as windows with text, and the same source and text
\* give the same chunks again.
C24_ConsecutiveChunkIds ==
    call.op = "_chunk_text"
      => /\ \A j \in 1..Len(call.ret) :
               /\ call.ret[j].chunk_id = <<"md5", SOURCE \o <<"_">> \o Str(j - 1)>>
               /\ call.ret[j].source = SOURCE
         /\ Len(Strip(call.arg)) >= call.k
              => Len(call.ret) =
                   Cardinality(TextWindows(Strip(call.arg),
                                 List(Windows(Strip(call.arg), 0, call.k, call.env))))
         /\ Len(Strip(call.arg)) < call.k => Len(call.ret) = 1
         /\ call.ret = ChunkText(call.arg, SOURCE, call.k, call.env)

\* the third window has no text and takes no index: the chunk of the
\* window after it has index 2
C24_Witness ==
    /\ call.op = "_chunk_text"
    /\ Len(call.ret) >= 3
    /\ Len(Windows(Strip(call.arg), 0, call.k, call.env)) = Len(call.ret) + 1
    /\ 3 \notin TextWindows(Strip(call.arg),
                            Windows(Strip(call.arg), 0, call.k, call.env))
    /\ call.ret[3].chunk_id = <<"md5", SOURCE \o <<"_", "2">> >>

---------------------------------------------------------------------------
(* Candidates of a query                                                   *)

\* the tokens of the query that chunk i holds too
SharedTokens(i, query) == Range(_tokenize(query)) \cap TokenSets[i]

\* a token that some stored chunk does not hold
Rare(t) == \E j \in 1..Len(chunks) : t \notin TokenSets[j]

Candidates(query) ==
    {i \in 1..Len(chunks) : \E t \in SharedTokens(i, query) : Rare(t)}

\* C25: a stored chunk has a score above zero for a query exactly when it
\* shares with the query a token that some stored chunk does not hold;
\* query_context returns min(k, number of such chunks) results, all of
\* such chunks; and a shared token that every chunk holds has weight zero
\* in the chunk's vector and in the query's.
C25_CandidatesShareRareToken ==
    call.op = "query_context"
      => /\ \A i \in 1..Len(chunks) :
               ChunkScore(i, call.arg)[1] > 0 <=> i \in Candidates(call.arg)
         /\ Len(call.ret) = Min(call.k, Cardinality(Candidates(call.arg)))
         /\ \A r \in 1..Len(call.ret) :
               \E i \in Candidates(call.arg) : call.ret[r] = Result(i, call.arg)
         /\ \A i \in 1..Len(chunks) :
               \A t \in SharedTokens(i, call.arg) :
                  ~Rare(t)
                    => /\ _get_tfidf_vector(call.arg, idf).weights[t] = 0
                       /\ _get_tfidf_vector(chunks[i].content, idf).weights[t] = 0

\* a query with a result, and a stored chunk that shares a token with the
\* query without being a candidate
C25_Witness ==
    /\ call.op = "query_context"
    /\ call.ret # <<>>
    /\ \E i \in 1..Len(chunks) :
          SharedTokens(i, call.arg) # {} /\ i \notin Candidates(call.arg)

---------------------------------------------------------------------------
(* Redundant chunks                                                        *)

\* the window with text that precedes window i, among the windows w
PrecedingTextWindow(text, w, i) ==
    Highest({j \in TextWindows(text, w) : j < i})

\* C26: for a text at least as long as the chunk size, the chunks are the
\* texts of the windows, and the window of every chunk after the first ends
\* beyond the end of the window of the chunk before it, so every chunk
\* covers a position the preceding one does not.
C26_NoRedundantChunk ==
    (call.op = "_chunk_text" /\ Len(Strip(call.arg)) >= call.k)
      => LET text == Strip(call.arg)
             w == List(Windows(text, 0, call.k, call.env))
             emitted == TextWindows(text, w)
         IN  /\ ChunkContents(call.ret) = WindowTexts(text, w)
             /\ \A i \in emitted :
                   (\E j \in emitted : j < i)
                     => w[i][2] > w[PrecedingTextWindow(text, w, i)][2]

---------------------------------------------------------------------------
(* The interview session                                                   *)

\* C27: while an interview is going on, after any start_new_interview and
\* process_audio_turn the conversation is aligned with the turn counter:
\* len(messages) = 1 + 2 * turn_number and len(turn_analytics) =
\* turn_number.
C27_TurnsAligned ==
    (call.op \in {"start_new_interview", "process_audio_turn"}
       /\ session.state.interview_active)
      => /\ Len(session.state.messages) = 1 + 2 * session.state.turn_number
         /\ Len(session.state.turn_analytics) = session.state.turn_number

\* C28: process_audio_turn called with no audio, or with fewer than 1000
\* bytes, returns False and changes nothing of the session: turn_number,
\* messages, turn_analytics, last_ai_message and recorder_key stay as they
\* are and no audio file is saved.
C28_ShortAudioIgnored ==
    [][(call'.op = "process_audio_turn"
          /\ (~call'.arg.given \/ call'.arg.len < 1000))
         => /\ ~call'.raised
            /\ call'.ret = FALSE
            /\ session' = session]_vars

\* a recording of 999 bytes was refused in an interview whose turn counter
\* is at 1
C28_Witness ==
    /\ call.op = "process_audio_turn"
    /\ call.arg = Audio(TRUE, 999)
    /\ ~call.raised
    /\ call.ret = FALSE
    /\ session.state.turn_number = 1

---------------------------------------------------------------------------
(* An index constructed while a document is added                          *)

\* the last call is a handler call that constructed a RAGService
HandlerConstructed ==
    \/ call.op = "start_new_interview" /\ ~call.raised
    \/ call.op = "process_audio_turn" /\ call.arg.given
         /\ call.arg.len >= MIN_AUDIO_BYTES

\* C30: the index a handler constructs from storage holds the complete
\* chunk list of the documents page's index: the list after the last add
\* or, while an add_document is executing, the list from before that add
\* or the list after it; it is never another list, such as the empty one.
C30_CompleteIndexObserved ==
    HandlerConstructed
      => \/ session.rag = chunks
         \/ saving.open /\ session.rag = saving.before
====
